---- MODULE Spec2Model ----
(***************************************************************************)
(* Tenant registry and custom-domain lifecycle of rayah-poc.               *)
(*                                                                         *)
(* A JavaScript string is a sequence of one-character strings.  A Convex   *)
(* document, and a JavaScript object crossing ctx.runMutation, is a        *)
(* record that holds only the keys whose value is defined: an optional     *)
(* field that is undefined is an absent key.  Every Convex query and       *)
(* mutation handler is one transaction, hence one atomic step; an action   *)
(* (createForSite, refreshStatus, removeFromProject) is a sequence of      *)
(* steps, one per await, that interleave with other invocations.           *)
(* createdAt / updatedAt of the customDomains table are not modelled (no   *)
(* handler reads them); those of the sites table are.                      *)
(***************************************************************************)
EXTENDS Integers, Sequences, FiniteSets, TLC

VARIABLES
    customDomains,  \* table customDomains: _id -> document
    nextDomainId,   \* the _id the next ctx.db.insert("customDomains") returns
    env,            \* per invocation slot: process.env as vercelDomains.ts read it on load
    pc,             \* per invocation slot: the await the action is suspended at
    args,           \* per invocation slot: the action's name and arguments
    loc,            \* per invocation slot: the handler's local constants / lets
    outcome,        \* per invocation slot: the value returned or the error thrown
    calls,          \* per invocation slot: gateway operations invoked so far
    sites,          \* table sites: _id -> document
    nextSiteId,     \* the _id the next ctx.db.insert("sites") returns
    storage,        \* _storage: ids of the blobs that exist
    now,            \* Date.now()
    siteResult,     \* what the last sites mutation returned or threw
    call,           \* the last call of a pure function: its name, arguments and result
    httpResponse,   \* the last GET of the tenant config endpoint and its response
    siteForRequest  \* the last getSiteForRequest: its environment, host header and result

domainVars == <<customDomains, nextDomainId, env, pc, args, loc, outcome, calls>>
siteVars == <<sites, nextSiteId, storage, now, siteResult>>
readVars == <<call, httpResponse, siteForRequest>>
vars == <<customDomains, nextDomainId, env, pc, args, loc, outcome, calls,
          sites, nextSiteId, storage, now, siteResult,
          call, httpResponse, siteForRequest>>

(***************************************************************************)
(* Bounds of the model.                                                    *)
(***************************************************************************)
MaxDomainInserts == 2  \* customDomains documents ever inserted in one run
MaxSiteInserts == 2    \* sites documents ever inserted in one run
MaxTime == 1           \* largest value Date.now() takes

\* invocation slots: two, so that any two workflows may overlap
Procs == {1, 2}

(***************************************************************************)
(* Strings.                                                                *)
(***************************************************************************)
UpperChars == <<"A","B","C","D","E","F","G","H","I","J","K","L","M",
                "N","O","P","Q","R","S","T","U","V","W","X","Y","Z">>
LowerChars == <<"a","b","c","d","e","f","g","h","i","j","k","l","m",
                "n","o","p","q","r","s","t","u","v","w","x","y","z">>
Digits == {"0","1","2","3","4","5","6","7","8","9"}
Whitespace == {" ", "\t", "\n"}

Range(s) == {s[i] : i \in DOMAIN s}

\* String.prototype.toLowerCase, one character
LowerChar(c) ==
    IF \E i \in DOMAIN UpperChars : UpperChars[i] = c
    THEN LowerChars[CHOOSE i \in DOMAIN UpperChars : UpperChars[i] = c]
    ELSE c

\* String.prototype.toLowerCase
toLowerCase(s) == [i \in DOMAIN s |-> LowerChar(s[i])]

\* String.prototype.trim
trim(s) ==
    LET keep == {i \in DOMAIN s : s[i] \notin Whitespace}
    IN  IF keep = {} THEN <<>>
        ELSE LET lo == CHOOSE i \in keep : \A j \in keep : i <= j
                 hi == CHOOSE i \in keep : \A j \in keep : j <= i
             IN  SubSeq(s, lo, hi)

\* String.prototype.startsWith
startsWith(s, prefix) ==
    /\ Len(prefix) <= Len(s)
    /\ SubSeq(s, 1, Len(prefix)) = prefix

\* String.prototype.endsWith
endsWith(s, suffix) ==
    /\ Len(suffix) <= Len(s)
    /\ SubSeq(s, Len(s) - Len(suffix) + 1, Len(s)) = suffix

\* String.prototype.indexOf for a one-character needle, 1-based; 0 when absent
indexOf(s, c) ==
    IF \E i \in DOMAIN s : s[i] = c
    THEN CHOOSE i \in DOMAIN s : s[i] = c /\ \A j \in 1..(i-1) : s[j] # c
    ELSE 0

\* String.prototype.split(c).filter(Boolean).length: the non-empty pieces between c's
RECURSIVE CountLabels(_, _)
CountLabels(s, c) ==
    IF s = <<>> THEN 0
    ELSE LET k == indexOf(s, c)
         IN  IF k = 0 THEN 1
             ELSE (IF k > 1 THEN 1 ELSE 0) + CountLabels(SubSeq(s, k + 1, Len(s)), c)

(***************************************************************************)
(* vercelDomains.ts: the provider gateway and its pure helpers.            *)
(***************************************************************************)
HttpScheme == <<"h","t","t","p",":","/","/">>
HttpsScheme == <<"h","t","t","p","s",":","/","/">>

ErrDomainRequired == <<"Domain is required.">>
ErrInvalidDomain ==
    <<"Please enter a valid domain name like \"kooft.com\" (no protocol, no path).">>

\* domain.replace(/^https?:\/\//, "")
StripScheme(d) ==
    IF startsWith(d, HttpsScheme) THEN SubSeq(d, Len(HttpsScheme) + 1, Len(d))
    ELSE IF startsWith(d, HttpScheme) THEN SubSeq(d, Len(HttpScheme) + 1, Len(d))
    ELSE d

\* the first "/" and all after it cut off
StripPath(d) ==
    LET firstSlash == indexOf(d, "/")
    IN  IF firstSlash # 0 THEN SubSeq(d, 1, firstSlash - 1) ELSE d

\* one trailing "." cut off
StripTrailingDot(d) ==
    IF endsWith(d, <<".">>) THEN SubSeq(d, 1, Len(d) - 1) ELSE d

\* normalizeDomain(raw): [ok |-> TRUE, value |-> domain] or the error thrown
normalizeDomain(raw) ==
    LET d0 == toLowerCase(trim(raw))
        d2 == StripPath(StripScheme(d0))
    IN  IF d0 = <<>> THEN [ok |-> FALSE, error |-> ErrDomainRequired]
        ELSE IF "." \notin Range(d2) THEN [ok |-> FALSE, error |-> ErrInvalidDomain]
        ELSE [ok |-> TRUE, value |-> StripTrailingDot(d2)]

ErrMissingToken ==
    <<"Missing Vercel configuration. Please set VERCEL_ACCESS_TOKEN in Convex environment variables.">>
ErrMissingProjectId ==
    <<"Missing Vercel configuration. Please set VERCEL_PROJECT_ID in Convex environment variables.">>
ErrFetchFailed == <<"fetch failed">>
DefaultApiError == <<"Vercel API error">>

\* what api.vercel.com recommends: the target of a CNAME, the address of an A record
CnameTarget == <<"cname.vercel-dns.com">>
Ipv4Address == <<"76.76.21.21">>

\* VercelDomainConfigResponse bodies the provider may answer with
Configs ==
    [recommendedCNAME : {<<>>, <<[rank |-> 1, value |-> CnameTarget]>>},
     recommendedIPv4 : {<<>>, <<[rank |-> 1, value |-> <<>>]>>,
                        <<[rank |-> 1, value |-> <<Ipv4Address>>]>>},
     misconfigured : BOOLEAN]

\* body of a non-2xx answer
ErrorBodies == {[error |-> [message |-> <<"forbidden">>]]}

\* what the network may do with one request: fetch rejects ("network"), or an
\* answer arrives, non-2xx or 2xx with one of bodies; kinds: which of these happen
ResponseKinds == {"network", "non2xx", "ok"}
Responses(kinds, bodies) ==
    {r \in {[kind |-> "network"]}
            \cup {[kind |-> "non2xx", data |-> b] : b \in ErrorBodies}
            \cup {[kind |-> "ok", data |-> b] : b \in bodies} : r.kind \in kinds}

FullEnv == [token |-> TRUE, projectId |-> TRUE]

\* VERCEL_ACCESS_TOKEN and VERCEL_PROJECT_ID: set, or one of them unset
EnvValues == {e \in [token : BOOLEAN, projectId : BOOLEAN] : e.token \/ e.projectId}

\* data?.error?.message ?? data?.message ?? "Vercel API error"
ApiErrorMessage(data) ==
    IF "error" \in DOMAIN data /\ "message" \in DOMAIN data.error THEN data.error.message
    ELSE IF "message" \in DOMAIN data THEN data.message
    ELSE DefaultApiError

\* a variant of callVercel that sends the request whether or not the token is set
callVercelUnguarded(e, resp) ==
    IF resp.kind = "network" THEN [threw |-> TRUE, sent |-> TRUE, error |-> ErrFetchFailed]
    ELSE IF resp.kind = "non2xx"
         THEN [threw |-> FALSE, sent |-> TRUE, ok |-> FALSE,
               errorMessage |-> ApiErrorMessage(resp.data)]
    ELSE [threw |-> FALSE, sent |-> TRUE, ok |-> TRUE, data |-> resp.data]

\* callVercel(path, init) under environment e when the network answers resp.
\* threw: an Error left the function; sent: fetch was called.
callVercel(e, resp) ==
    IF ~e.token THEN [threw |-> TRUE, sent |-> FALSE, error |-> ErrMissingToken]
    ELSE IF resp.kind = "network" THEN [threw |-> TRUE, sent |-> TRUE, error |-> ErrFetchFailed]
    ELSE IF resp.kind = "non2xx"
         THEN [threw |-> FALSE, sent |-> TRUE, ok |-> FALSE,
               errorMessage |-> ApiErrorMessage(resp.data)]
    ELSE [threw |-> FALSE, sent |-> TRUE, ok |-> TRUE, data |-> resp.data]

\* addDomainToProject(name, redirect?)
addDomainToProject(e, name, resp) ==
    IF ~e.projectId THEN [threw |-> TRUE, sent |-> FALSE, error |-> ErrMissingProjectId]
    ELSE LET result == callVercel(e, resp)
         IN  IF result.threw THEN result
             ELSE IF ~result.ok
                  THEN [threw |-> TRUE, sent |-> TRUE,
                        error |-> <<"Failed to attach domain \"">> \o name
                                  \o <<"\" to Vercel project: ">> \o result.errorMessage]
             ELSE [threw |-> FALSE, sent |-> TRUE]

\* getDomainConfig(name)
getDomainConfig(e, name, resp) ==
    LET result == callVercel(e, resp)
    IN  IF result.threw THEN result
        ELSE IF ~result.ok
             THEN [threw |-> TRUE, sent |-> TRUE,
                   error |-> <<"Failed to load DNS configuration for \"">> \o name
                             \o <<"\" from Vercel: ">> \o result.errorMessage]
        ELSE [threw |-> FALSE, sent |-> TRUE, data |-> result.data]

\* a variant of deleteDomain without the try/catch around callVercel
deleteDomainUncaught(e, name, resp) ==
    LET result == callVercel(e, resp)
    IN  [threw |-> result.threw, sent |-> result.sent]

\* deleteDomain(name): whatever callVercel does, nothing is thrown
deleteDomain(e, name, resp) ==
    LET result == callVercel(e, resp)
    IN  [threw |-> FALSE, sent |-> result.sent]

\* a variant of DnsStatus that holds a domain without any recommendation to be pending
DnsStatusByRecommendation(config) ==
    IF config.misconfigured \/ (config.recommendedCNAME = <<>> /\ config.recommendedIPv4 = <<>>)
    THEN "pending" ELSE "active"

\* a variant of DnsStatus that passes the provider's own word for an unverified domain on
DnsStatusProviderWord(config) == IF config.misconfigured THEN "misconfigured" ELSE "active"

\* config.misconfigured ? "pending" : "active"
DnsStatus(config) == IF config.misconfigured THEN "pending" ELSE "active"

\* an object literal spread over another: the keys of both, those of over winning
Merge(base, over) ==
    [k \in DOMAIN base \cup DOMAIN over |-> IF k \in DOMAIN over THEN over[k] ELSE base[k]]

\* the object restricted to the keys of ks it has
Pick(obj, ks) == [k \in DOMAIN obj \cap ks |-> obj[k]]

\* a variant of deriveDnsInstruction: the one of vercelDomains.ts, which takes
\* the CNAME first whatever the shape of the domain
deriveDnsInstructionCnameFirst(domain, config) ==
    LET hasCname == Len(config.recommendedCNAME) > 0
        hasIpv4 == /\ Len(config.recommendedIPv4) > 0
                   /\ Len(config.recommendedIPv4[1].value) > 0
        status == [status |-> IF config.misconfigured THEN "pending" ELSE "active"]
    IN  IF hasCname
        THEN Merge(status, [verificationType |-> "CNAME", verificationName |-> domain,
                            verificationValue |-> config.recommendedCNAME[1].value])
        ELSE IF hasIpv4
        THEN Merge(status, [verificationType |-> "A", verificationName |-> domain,
                            verificationValue |-> config.recommendedIPv4[1].value[1]])
        ELSE status

\* deriveDnsInstruction(domain, config); an undefined verification field is an absent key
deriveDnsInstruction(domain, config) ==
    LET hasCname == Len(config.recommendedCNAME) > 0
        hasIpv4 == /\ Len(config.recommendedIPv4) > 0
                   /\ Len(config.recommendedIPv4[1].value) > 0
        isApex == CountLabels(domain, ".") = 2
        useA == [verificationType |-> "A", verificationName |-> domain,
                 verificationValue |-> config.recommendedIPv4[1].value[1]]
        useCname == [verificationType |-> "CNAME", verificationName |-> domain,
                     verificationValue |-> config.recommendedCNAME[1].value]
        status == [status |-> DnsStatus(config)]
    IN  IF isApex /\ hasIpv4 THEN Merge(status, useA)
        ELSE IF ~isApex /\ hasCname THEN Merge(status, useCname)
        ELSE IF hasIpv4 THEN Merge(status, useA)
        ELSE IF hasCname THEN Merge(status, useCname)
        ELSE status

(***************************************************************************)
(* customDomains.ts: the registry mutations and the three workflows.       *)
(***************************************************************************)
\* args.domain values an admin may submit to createForSite
DomainInputs ==
    { <<"a",".","i","o">>,
      <<" ","H","T","T","P","S",":","/","/","A",".","i","o","/","x">>,
      <<"n","o","d","o","t">> }

\* args.domain values of invocations that race: two spellings of one domain
RaceDomainInputs ==
    { <<"a",".","i","o">>,
      <<" ","H","T","T","P","S",":","/","/","A",".","i","o","/","x">> }

\* args.siteId values: v.id("sites") checks the table, not that the site exists
SiteIdInputs == {1}

WwwPrefix == <<"w","w","w",".">>

\* the null of wwwId; document ids start at 1
NullId == 0

ErrNotFound == <<"Custom domain not found.">>
\* what ctx.db.patch and ctx.db.delete throw on an id whose document is gone
ErrPatchMissing == <<"Update on nonexistent document ID">>
ErrDeleteMissing == <<"Delete on nonexistent document ID">>
ErrAlreadyConnected(domain) == <<"Domain \"">> \o domain \o <<"\" is already connected.">>

VerificationKeys == {"verificationType", "verificationName", "verificationValue"}

Threw(e) == [kind |-> "threw", error |-> e]
Returned(v) == [kind |-> "returned", value |-> v]
Running == [kind |-> "running"]
NoLocals == [k \in {} |-> 0]
InFlight(p) == pc[p] \notin {"idle", "done"}

\* api.customDomains.get: the document, when there is one
HasDomainRecord(id) == id \in DOMAIN customDomains

\* a variant of InsertExisting for an insert handler without the by_domain lookup
InsertExistingNever(domain) == FALSE

\* insert handler, the by_domain lookup: is a document with this exact domain there?
InsertExisting(domain) == \E id \in DOMAIN customDomains : customDomains[id].domain = domain

\* insert handler, ctx.db.insert: the table with the new document
InsertDomain(doc) == customDomains @@ (nextDomainId :> doc)

\* updateStatus handler: ctx.db.patch(id, rest); keys absent from rest are kept
PatchDomain(id, rest) == [customDomains EXCEPT ![id] = Merge(customDomains[id], rest)]

\* a variant of DeleteDomain for a remove handler that leaves the document
DeleteDomainKeep(id) == customDomains

\* remove handler: ctx.db.delete(id)
DeleteDomain(id) == [i \in DOMAIN customDomains \ {id} |-> customDomains[i]]

\* the arguments createForSite gives insert; vercelDomainId and error are
\* undefined, and so are the verification fields dns lacks
InsertArgs(siteId, domain, redirectFromWww, dns) ==
    Merge([siteId |-> siteId, domain |-> domain, redirectFromWww |-> redirectFromWww,
           status |-> dns.status],
          Pick(dns, VerificationKeys))

\* a variant of PatchErrorArgs that marks the record without the message
PatchErrorArgsNoMessage(record, message) ==
    Merge([status |-> "error"],
          Pick(record, VerificationKeys \cup {"vercelDomainId"}))

\* the arguments refreshStatus gives updateStatus when getDomainConfig threw
PatchErrorArgs(record, message) ==
    Merge([status |-> "error", error |-> message],
          Pick(record, VerificationKeys \cup {"vercelDomainId"}))

\* the arguments refreshStatus gives updateStatus when getDomainConfig answered
PatchStatusArgs(record, dns) ==
    Merge(Merge([status |-> dns.status], Pick(record, {"vercelDomainId"})),
          Pick(dns, VerificationKeys))

\* customDomains documents the invocation in slot p may still insert
InsertsAhead(p) ==
    IF pc[p] \in {"attachApex", "fetchApex", "insertApex"}
    THEN (IF args[p].redirectFromWww THEN 2 ELSE 1)
    ELSE IF pc[p] \in {"attachWww", "fetchWww", "insertWww"} THEN 1
    ELSE 0

RECURSIVE SumInsertsAhead(_)
SumInsertsAhead(ps) ==
    IF ps = {} THEN 0
    ELSE LET p == CHOOSE q \in ps : TRUE
         IN  InsertsAhead(p) + SumInsertsAhead(ps \ {p})

\* an action is invoked with arguments a, its module having read environment e;
\* it takes the lowest slot that holds no running invocation
Begin(p, e, a) ==
    /\ ~InFlight(p)
    /\ \A q \in Procs : q < p => InFlight(q)
    /\ args' = [args EXCEPT ![p] = a]
    /\ env' = [env EXCEPT ![p] = e]
    /\ calls' = [calls EXCEPT ![p] = <<>>]

\* the handler reaches its first await with these locals
Start(p, label, locals) ==
    /\ pc' = [pc EXCEPT ![p] = label]
    /\ loc' = [loc EXCEPT ![p] = locals]
    /\ outcome' = [outcome EXCEPT ![p] = Running]

\* the handler goes on to its next await, with more locals
Goto(p, label, more) ==
    /\ pc' = [pc EXCEPT ![p] = label]
    /\ loc' = [loc EXCEPT ![p] = Merge(@, more)]
    /\ UNCHANGED outcome

\* the handler returns or throws: its locals are gone, the caller has the outcome
Finish(p, out) ==
    /\ pc' = [pc EXCEPT ![p] = "done"]
    /\ loc' = [loc EXCEPT ![p] = NoLocals]
    /\ outcome' = [outcome EXCEPT ![p] = out]

\* the gateway operation op is invoked for name; sent: it called fetch
Log(p, op, name, sent) ==
    calls' = [calls EXCEPT ![p] = Append(@, [op |-> op, name |-> name, sent |-> sent])]

\* the provider's answers to the config request that the workflows are run against
WorkflowConfigs ==
    { [recommendedCNAME |-> <<[rank |-> 1, value |-> CnameTarget]>>,
       recommendedIPv4 |-> <<[rank |-> 1, value |-> <<Ipv4Address>>]>>,
       misconfigured |-> FALSE],
      [recommendedCNAME |-> <<[rank |-> 1, value |-> CnameTarget]>>,
       recommendedIPv4 |-> <<[rank |-> 1, value |-> <<Ipv4Address>>]>>,
       misconfigured |-> TRUE],
      [recommendedCNAME |-> <<>>, recommendedIPv4 |-> <<>>, misconfigured |-> TRUE] }

\* createForSite is invoked: normalizeDomain(args.domain)
CreateForSite(p, e, siteId, domain, redirectFromWww) ==
    /\ (nextDomainId - 1) + SumInsertsAhead(Procs \ {p})
         + (IF redirectFromWww THEN 2 ELSE 1) <= MaxDomainInserts
    /\ Begin(p, e, [fn |-> "createForSite", siteId |-> siteId, domain |-> domain,
                    redirectFromWww |-> redirectFromWww])
    /\ LET apexDomain == normalizeDomain(domain)
       IN  IF apexDomain.ok
           THEN Start(p, "attachApex", [apexDomain |-> apexDomain.value])
           ELSE Finish(p, Threw(apexDomain.error))
    /\ UNCHANGED <<customDomains, nextDomainId, siteVars, readVars>>

\* a variant of AttachApex that tries a failed attach a second time
AttachApexRetry(p, kinds) ==
    /\ pc[p] = "attachApex"
    /\ \E resp \in Responses(kinds, {[name |-> loc[p].apexDomain]}) :
         LET r == addDomainToProject(env[p], loc[p].apexDomain, resp)
         IN  /\ Log(p, "attach", loc[p].apexDomain, r.sent)
             /\ IF r.threw /\ calls[p] = <<>> THEN Goto(p, "attachApex", NoLocals)
                ELSE IF r.threw THEN Finish(p, Threw(r.error))
                ELSE Goto(p, "fetchApex", NoLocals)
    /\ UNCHANGED <<customDomains, nextDomainId, env, args, siteVars, readVars>>

\* await addDomainToProject(apexDomain)
AttachApex(p, kinds) ==
    /\ pc[p] = "attachApex"
    /\ \E resp \in Responses(kinds, {[name |-> loc[p].apexDomain]}) :
         LET r == addDomainToProject(env[p], loc[p].apexDomain, resp)
         IN  /\ Log(p, "attach", loc[p].apexDomain, r.sent)
             /\ IF r.threw THEN Finish(p, Threw(r.error))
                ELSE Goto(p, "fetchApex", NoLocals)
    /\ UNCHANGED <<customDomains, nextDomainId, env, args, siteVars, readVars>>

\* a variant of FetchApex that stores a document in status error when the fetch fails
FetchApexRecordFailure(p, kinds) ==
    /\ pc[p] = "fetchApex"
    /\ \E resp \in Responses(kinds, WorkflowConfigs) :
         LET r == getDomainConfig(env[p], loc[p].apexDomain, resp)
         IN  /\ Log(p, "fetchConfig", loc[p].apexDomain, r.sent)
             /\ IF r.threw
                THEN /\ Finish(p, Threw(r.error))
                     /\ customDomains' =
                            InsertDomain([siteId |-> args[p].siteId,
                                          domain |-> loc[p].apexDomain,
                                          redirectFromWww |-> args[p].redirectFromWww,
                                          status |-> "error", error |-> r.error])
                     /\ nextDomainId' = nextDomainId + 1
                ELSE /\ Goto(p, "insertApex",
                             [apexDns |-> deriveDnsInstruction(loc[p].apexDomain, r.data)])
                     /\ UNCHANGED <<customDomains, nextDomainId>>
    /\ UNCHANGED <<env, args, siteVars, readVars>>

\* await getDomainConfig(apexDomain); deriveDnsInstruction(apexDomain, apexConfig)
FetchApex(p, kinds) ==
    /\ pc[p] = "fetchApex"
    /\ \E resp \in Responses(kinds, WorkflowConfigs) :
         LET r == getDomainConfig(env[p], loc[p].apexDomain, resp)
         IN  /\ Log(p, "fetchConfig", loc[p].apexDomain, r.sent)
             /\ IF r.threw THEN Finish(p, Threw(r.error))
                ELSE Goto(p, "insertApex",
                          [apexDns |-> deriveDnsInstruction(loc[p].apexDomain, r.data)])
    /\ UNCHANGED <<customDomains, nextDomainId, env, args, siteVars, readVars>>

\* a variant of InsertApex whose insert answers a duplicate with the id it found
InsertApexUpsert(p) ==
    /\ pc[p] = "insertApex"
    /\ IF InsertExisting(loc[p].apexDomain)
       THEN /\ Finish(p, Returned([apexId |->
                     CHOOSE id \in DOMAIN customDomains :
                         customDomains[id].domain = loc[p].apexDomain,
                   wwwId |-> NullId]))
            /\ UNCHANGED <<customDomains, nextDomainId>>
       ELSE /\ customDomains' = InsertDomain(InsertArgs(args[p].siteId, loc[p].apexDomain,
                                                        args[p].redirectFromWww,
                                                        loc[p].apexDns))
            /\ nextDomainId' = nextDomainId + 1
            /\ IF args[p].redirectFromWww
               THEN Goto(p, "attachWww", [apexId |-> nextDomainId,
                                          wwwDomain |-> WwwPrefix \o loc[p].apexDomain])
               ELSE Finish(p, Returned([apexId |-> nextDomainId, wwwId |-> NullId]))
    /\ UNCHANGED <<env, args, calls, siteVars, readVars>>

\* apexId = await ctx.runMutation(api.customDomains.insert, {domain: apexDomain, ...})
InsertApex(p) ==
    /\ pc[p] = "insertApex"
    /\ IF InsertExisting(loc[p].apexDomain)
       THEN /\ Finish(p, Threw(ErrAlreadyConnected(loc[p].apexDomain)))
            /\ UNCHANGED <<customDomains, nextDomainId>>
       ELSE /\ customDomains' = InsertDomain(InsertArgs(args[p].siteId, loc[p].apexDomain,
                                                        args[p].redirectFromWww,
                                                        loc[p].apexDns))
            /\ nextDomainId' = nextDomainId + 1
            /\ IF args[p].redirectFromWww
               THEN Goto(p, "attachWww", [apexId |-> nextDomainId,
                                          wwwDomain |-> WwwPrefix \o loc[p].apexDomain])
               ELSE Finish(p, Returned([apexId |-> nextDomainId, wwwId |-> NullId]))
    /\ UNCHANGED <<env, args, calls, siteVars, readVars>>

\* a variant of AttachWww that takes the apex document back when the attach fails
AttachWwwRollback(p, kinds) ==
    /\ pc[p] = "attachWww"
    /\ \E resp \in Responses(kinds, {[name |-> loc[p].wwwDomain]}) :
         LET r == addDomainToProject(env[p], loc[p].wwwDomain, resp)
         IN  /\ Log(p, "attach", loc[p].wwwDomain, r.sent)
             /\ IF r.threw
                THEN /\ Finish(p, Threw(r.error))
                     /\ customDomains' = DeleteDomain(loc[p].apexId)
                ELSE /\ Goto(p, "fetchWww", NoLocals)
                     /\ UNCHANGED customDomains
    /\ UNCHANGED <<nextDomainId, env, args, siteVars, readVars>>

\* await addDomainToProject(wwwDomain, apexDomain)
AttachWww(p, kinds) ==
    /\ pc[p] = "attachWww"
    /\ \E resp \in Responses(kinds, {[name |-> loc[p].wwwDomain]}) :
         LET r == addDomainToProject(env[p], loc[p].wwwDomain, resp)
         IN  /\ Log(p, "attach", loc[p].wwwDomain, r.sent)
             /\ IF r.threw THEN Finish(p, Threw(r.error))
                ELSE Goto(p, "fetchWww", NoLocals)
    /\ UNCHANGED <<customDomains, nextDomainId, env, args, siteVars, readVars>>

\* await getDomainConfig(wwwDomain); deriveDnsInstruction(wwwDomain, wwwConfig)
FetchWww(p, kinds) ==
    /\ pc[p] = "fetchWww"
    /\ \E resp \in Responses(kinds, WorkflowConfigs) :
         LET r == getDomainConfig(env[p], loc[p].wwwDomain, resp)
         IN  /\ Log(p, "fetchConfig", loc[p].wwwDomain, r.sent)
             /\ IF r.threw THEN Finish(p, Threw(r.error))
                ELSE Goto(p, "insertWww",
                          [wwwDns |-> deriveDnsInstruction(loc[p].wwwDomain, r.data)])
    /\ UNCHANGED <<customDomains, nextDomainId, env, args, siteVars, readVars>>

\* wwwId = await ctx.runMutation(api.customDomains.insert, {domain: wwwDomain, ...});
\* return {apexId, wwwId}
InsertWww(p) ==
    /\ pc[p] = "insertWww"
    /\ IF InsertExisting(loc[p].wwwDomain)
       THEN /\ Finish(p, Threw(ErrAlreadyConnected(loc[p].wwwDomain)))
            /\ UNCHANGED <<customDomains, nextDomainId>>
       ELSE /\ customDomains' = InsertDomain(InsertArgs(args[p].siteId, loc[p].wwwDomain,
                                                        TRUE, loc[p].wwwDns))
            /\ nextDomainId' = nextDomainId + 1
            /\ Finish(p, Returned([apexId |-> loc[p].apexId, wwwId |-> nextDomainId]))
    /\ UNCHANGED <<env, args, calls, siteVars, readVars>>

\* refreshStatus is invoked: record = await ctx.runQuery(api.customDomains.get, {id})
RefreshStatus(p, e, id) ==
    /\ Begin(p, e, [fn |-> "refreshStatus", id |-> id])
    /\ IF HasDomainRecord(id)
       THEN Start(p, "fetchConfig", [record |-> customDomains[id]])
       ELSE Finish(p, Threw(ErrNotFound))
    /\ UNCHANGED <<customDomains, nextDomainId, siteVars, readVars>>

\* try { config = await getDomainConfig(record.domain) } catch (error) ...;
\* dns = deriveDnsInstruction(record.domain, config)
RefreshFetchConfig(p, kinds) ==
    /\ pc[p] = "fetchConfig"
    /\ \E resp \in Responses(kinds, WorkflowConfigs) :
         LET r == getDomainConfig(env[p], loc[p].record.domain, resp)
         IN  /\ Log(p, "fetchConfig", loc[p].record.domain, r.sent)
             /\ IF r.threw THEN Goto(p, "patchError", [error |-> r.error])
                ELSE Goto(p, "patchStatus",
                          [dns |-> deriveDnsInstruction(loc[p].record.domain, r.data)])
    /\ UNCHANGED <<customDomains, nextDomainId, env, args, siteVars, readVars>>

\* catch: await ctx.runMutation(api.customDomains.updateStatus, {status: "error", ...});
\* throw new Error(error.message)
RefreshPatchError(p) ==
    /\ pc[p] = "patchError"
    /\ IF HasDomainRecord(args[p].id)
       THEN /\ customDomains' =
                  PatchDomain(args[p].id, PatchErrorArgs(loc[p].record, loc[p].error))
            /\ Finish(p, Threw(loc[p].error))
       ELSE /\ UNCHANGED customDomains
            /\ Finish(p, Threw(ErrPatchMissing))
    /\ UNCHANGED <<nextDomainId, env, args, calls, siteVars, readVars>>

\* a variant of RefreshPatchStatus whose patch writes the document when there is none
RefreshPatchStatusUpsert(p) ==
    /\ pc[p] = "patchStatus"
    /\ customDomains' =
           IF HasDomainRecord(args[p].id)
           THEN PatchDomain(args[p].id, PatchStatusArgs(loc[p].record, loc[p].dns))
           ELSE customDomains @@ (args[p].id :> PatchStatusArgs(loc[p].record, loc[p].dns))
    /\ Finish(p, Returned([id |-> args[p].id, status |-> loc[p].dns.status]))
    /\ UNCHANGED <<nextDomainId, env, args, calls, siteVars, readVars>>

\* await ctx.runMutation(api.customDomains.updateStatus, {status: dns.status, ...});
\* return {id, status}
RefreshPatchStatus(p) ==
    /\ pc[p] = "patchStatus"
    /\ IF HasDomainRecord(args[p].id)
       THEN /\ customDomains' =
                  PatchDomain(args[p].id, PatchStatusArgs(loc[p].record, loc[p].dns))
            /\ Finish(p, Returned([id |-> args[p].id, status |-> loc[p].dns.status]))
       ELSE /\ UNCHANGED customDomains
            /\ Finish(p, Threw(ErrPatchMissing))
    /\ UNCHANGED <<nextDomainId, env, args, calls, siteVars, readVars>>

\* a variant of RemoveFromProject that treats a missing record as refreshStatus does
RemoveFromProjectStrict(p, e, id) ==
    /\ Begin(p, e, [fn |-> "removeFromProject", id |-> id])
    /\ IF HasDomainRecord(id)
       THEN Start(p, "detach", [record |-> customDomains[id]])
       ELSE Finish(p, Threw(ErrNotFound))
    /\ UNCHANGED <<customDomains, nextDomainId, siteVars, readVars>>

\* removeFromProject is invoked: record = await ctx.runQuery(api.customDomains.get, {id})
RemoveFromProject(p, e, id) ==
    /\ Begin(p, e, [fn |-> "removeFromProject", id |-> id])
    /\ IF HasDomainRecord(id)
       THEN Start(p, "detach", [record |-> customDomains[id]])
       ELSE Finish(p, Returned(<<>>))
    /\ UNCHANGED <<customDomains, nextDomainId, siteVars, readVars>>

\* try { await deleteDomain(record.domain) } catch {}
RemoveDetach(p, kinds) ==
    /\ pc[p] = "detach"
    /\ \E resp \in Responses(kinds, {[name |-> loc[p].record.domain]}) :
         LET r == deleteDomain(env[p], loc[p].record.domain, resp)
         IN  /\ Log(p, "detach", loc[p].record.domain, r.sent)
             /\ Goto(p, "remove", NoLocals)
    /\ UNCHANGED <<customDomains, nextDomainId, env, args, siteVars, readVars>>

\* await ctx.runMutation(api.customDomains.remove, {id})
RemoveDelete(p) ==
    /\ pc[p] = "remove"
    /\ IF HasDomainRecord(args[p].id)
       THEN /\ customDomains' = DeleteDomain(args[p].id)
            /\ Finish(p, Returned(<<>>))
       ELSE /\ UNCHANGED customDomains
            /\ Finish(p, Threw(ErrDeleteMissing))
    /\ UNCHANGED <<nextDomainId, env, args, calls, siteVars, readVars>>

\* ids of customDomains documents that exist or existed
IssuedDomainIds == 1..(nextDomainId - 1)

Invoke(p, envs, domains) ==
    \/ \E e \in envs, siteId \in SiteIdInputs, domain \in domains,
          redirectFromWww \in BOOLEAN :
         CreateForSite(p, e, siteId, domain, redirectFromWww)
    \/ \E e \in envs, id \in IssuedDomainIds : RefreshStatus(p, e, id)
    \/ \E e \in envs, id \in IssuedDomainIds : RemoveFromProject(p, e, id)

Step(p, kinds) ==
    \/ AttachApex(p, kinds)
    \/ FetchApex(p, kinds)
    \/ InsertApex(p)
    \/ AttachWww(p, kinds)
    \/ FetchWww(p, kinds)
    \/ InsertWww(p)
    \/ RefreshFetchConfig(p, kinds)
    \/ RefreshPatchError(p)
    \/ RefreshPatchStatus(p)
    \/ RemoveDetach(p, kinds)
    \/ RemoveDelete(p)

(***************************************************************************)
(* sites.ts: the sites table and its mutations.                            *)
(***************************************************************************)
MinSubdomainLength == 3
MaxSubdomainLength == 63

ErrSubdomainRequired == <<"Subdomain is required.">>
ErrSubdomainLength == <<"Subdomain must be between 3 and 63 characters.">>
ErrSubdomainPattern ==
    <<"Subdomain can only contain letters, numbers and dashes, and cannot start or end with a dash.">>
ErrSubdomainInUse == <<"Subdomain is already in use.">>

\* [a-z0-9]
IsAlnum(c) == c \in Range(LowerChars) \cup Digits

\* a variant of MatchesSubdomainPattern for the looser pattern /^[a-z0-9-]+$/
MatchesLoosePattern(s) ==
    /\ Len(s) > 0
    /\ \A i \in DOMAIN s : IsAlnum(s[i]) \/ s[i] = "-"

\* /^[a-z0-9]+(-[a-z0-9]+)*$/.test(s): runs of [a-z0-9], none empty, joined by single dashes
MatchesSubdomainPattern(s) ==
    /\ Len(s) > 0
    /\ \A i \in DOMAIN s : IsAlnum(s[i]) \/ s[i] = "-"
    /\ s[1] # "-"
    /\ s[Len(s)] # "-"
    /\ \A i \in 1..(Len(s) - 1) : ~(s[i] = "-" /\ s[i + 1] = "-")

\* normalizeAndValidateSubdomain(raw): [ok |-> TRUE, value |-> subdomain] or the error thrown
normalizeAndValidateSubdomain(raw) ==
    LET subdomain == toLowerCase(trim(raw))
    IN  IF subdomain = <<>> THEN [ok |-> FALSE, error |-> ErrSubdomainRequired]
        ELSE IF Len(subdomain) < MinSubdomainLength \/ Len(subdomain) > MaxSubdomainLength
             THEN [ok |-> FALSE, error |-> ErrSubdomainLength]
        ELSE IF ~MatchesSubdomainPattern(subdomain)
             THEN [ok |-> FALSE, error |-> ErrSubdomainPattern]
        ELSE [ok |-> TRUE, value |-> subdomain]

\* args.subdomain values an admin may submit
SubdomainInputs ==
    { <<"a","b","c">>, <<" ","A","b","C"," ">>, <<"a","-","b">>,
      <<"a","b">>, <<"-","a","b">> }

\* args.subdomain values that probe the validator
ValidatorInputs ==
    { <<>>, <<" ">>, <<"m","y","-","s","i","t","e">>, <<" ","M","y","-","S","i","t","e"," ">>,
      <<"a","1","b","2">>, <<"A","1","B","2">>, <<"-","b","a","d">>, <<"b","a","d","-">>,
      <<"H","a","s","_","U","n","d","e","r","s","c","o","r","e">>, <<"a","-","-","b">>, <<"a","b">>, <<" ","a","b"," ">>,
      [i \in 1..MaxSubdomainLength |-> "a"], [i \in 1..(MaxSubdomainLength + 1) |-> "a"] }

\* the other fields of a site form
SiteFieldInputs ==
    { [name |-> <<"Acme">>, title |-> <<"Acme Inc">>, description |-> <<"tools">>,
       primaryColor |-> <<"#111111">>, secondaryColor |-> <<"#eeeeee">>],
      [name |-> <<"Bolt">>, title |-> <<"Bolt Ltd">>, description |-> <<"bolts">>,
       primaryColor |-> <<"#222222">>, secondaryColor |-> <<"#dddddd">>,
       faviconStorageId |-> 1] }

\* _storage ids a client may hold
BlobIds == {1}

\* the by_subdomain lookup: ids of the documents with this subdomain, .first() being the oldest
SitesBySubdomain(subdomain) == {id \in DOMAIN sites : sites[id].subdomain = subdomain}
FirstBySubdomain(subdomain) ==
    CHOOSE id \in SitesBySubdomain(subdomain) : \A j \in SitesBySubdomain(subdomain) : id <= j

\* a variant of CreateExisting for a create handler without the by_subdomain lookup
CreateExistingNever(subdomain) == FALSE

\* create handler: is a site with this subdomain there?
CreateExisting(subdomain) == SitesBySubdomain(subdomain) # {}

\* a variant of UpdateConflict for an update handler that does not exclude the site itself
UpdateConflictAnyHolder(id, subdomain) == SitesBySubdomain(subdomain) # {}

\* a variant of UpdateConflict for an update handler without the by_subdomain lookup
UpdateConflictNever(id, subdomain) == FALSE

\* update handler: existing && existing._id !== id
UpdateConflict(id, subdomain) ==
    /\ SitesBySubdomain(subdomain) # {}
    /\ FirstBySubdomain(subdomain) # id

SiteCall(fn, a, out) == [kind |-> "call", fn |-> fn, args |-> a, out |-> out]

\* sites.create
SitesCreate(a) ==
    LET subdomain == normalizeAndValidateSubdomain(a.subdomain)
    IN  /\ IF ~subdomain.ok
           THEN /\ siteResult' = SiteCall("create", a, Threw(subdomain.error))
                /\ UNCHANGED <<sites, nextSiteId>>
           ELSE IF CreateExisting(subdomain.value)
           THEN /\ siteResult' = SiteCall("create", a, Threw(ErrSubdomainInUse))
                /\ UNCHANGED <<sites, nextSiteId>>
           ELSE /\ nextSiteId <= MaxSiteInserts
                /\ sites' = sites @@ (nextSiteId :>
                       Merge(a, [subdomain |-> subdomain.value,
                                 createdAt |-> now, updatedAt |-> now]))
                /\ nextSiteId' = nextSiteId + 1
                /\ siteResult' = SiteCall("create", a, Returned(nextSiteId))
        /\ UNCHANGED <<storage, now, domainVars, readVars>>

\* sites.update
SitesUpdate(id, rest) ==
    LET subdomain == normalizeAndValidateSubdomain(rest.subdomain)
        a == Merge([id |-> id], rest)
    IN  /\ IF ~subdomain.ok
           THEN /\ siteResult' = SiteCall("update", a, Threw(subdomain.error))
                /\ UNCHANGED sites
           ELSE IF UpdateConflict(id, subdomain.value)
           THEN /\ siteResult' = SiteCall("update", a, Threw(ErrSubdomainInUse))
                /\ UNCHANGED sites
           ELSE IF id \notin DOMAIN sites
           THEN /\ siteResult' = SiteCall("update", a, Threw(ErrPatchMissing))
                /\ UNCHANGED sites
           ELSE /\ sites' = [sites EXCEPT ![id] =
                       Merge(@, Merge(rest, [subdomain |-> subdomain.value,
                                             updatedAt |-> now]))]
                /\ siteResult' = SiteCall("update", a, Returned(<<>>))
        /\ UNCHANGED <<nextSiteId, storage, now, domainVars, readVars>>

\* a variant of SitesRemove that deletes the custom domains of the site with it
SitesRemoveCascade(id) ==
    /\ IF id \notin DOMAIN sites
       THEN /\ siteResult' = SiteCall("remove", [id |-> id], Threw(ErrDeleteMissing))
            /\ UNCHANGED <<sites, storage, customDomains>>
       ELSE /\ storage' = IF "faviconStorageId" \in DOMAIN sites[id]
                          THEN storage \ {sites[id].faviconStorageId}
                          ELSE storage
            /\ sites' = [i \in DOMAIN sites \ {id} |-> sites[i]]
            /\ customDomains' = [d \in {x \in DOMAIN customDomains :
                                            customDomains[x].siteId # id} |-> customDomains[d]]
            /\ siteResult' = SiteCall("remove", [id |-> id], Returned(<<>>))
    /\ UNCHANGED <<nextSiteId, now, nextDomainId, env, pc, args, loc, outcome, calls, readVars>>

\* sites.remove
SitesRemove(id) ==
    /\ IF id \notin DOMAIN sites
       THEN /\ siteResult' = SiteCall("remove", [id |-> id], Threw(ErrDeleteMissing))
            /\ UNCHANGED <<sites, storage>>
       ELSE /\ storage' = IF "faviconStorageId" \in DOMAIN sites[id]
                          THEN storage \ {sites[id].faviconStorageId}
                          ELSE storage
            /\ sites' = [i \in DOMAIN sites \ {id} |-> sites[i]]
            /\ siteResult' = SiteCall("remove", [id |-> id], Returned(<<>>))
    /\ UNCHANGED <<nextSiteId, now, domainVars, readVars>>

\* generateUploadUrl, and the client's upload to it: a blob is stored
UploadFavicon(b) ==
    /\ b \notin storage
    /\ storage' = storage \cup {b}
    /\ UNCHANGED <<sites, nextSiteId, now, siteResult, domainVars, readVars>>

\* time passes
Tick ==
    /\ now < MaxTime
    /\ now' = now + 1
    /\ UNCHANGED <<sites, nextSiteId, storage, siteResult, domainVars, readVars>>

\* ids of sites documents that exist or existed
IssuedSiteIds == 1..(nextSiteId - 1)

(***************************************************************************)
(* siteConfig.ts: the hostname resolver of the Next.js app.                *)
(***************************************************************************)
\* a value that may be null
Null == [isNull |-> TRUE]
Some(v) == [isNull |-> FALSE, value |-> v]

\* String.prototype.split for a one-character separator: the pieces, empty ones included
RECURSIVE split(_, _)
split(s, c) ==
    LET k == indexOf(s, c)
    IN  IF k = 0 THEN <<s>>
        ELSE <<SubSeq(s, 1, k - 1)>> \o split(SubSeq(s, k + 1, Len(s)), c)

\* Array.prototype.map over a sequence of strings
RECURSIVE MapTrimLower(_)
MapTrimLower(ds) ==
    IF ds = <<>> THEN <<>>
    ELSE <<toLowerCase(trim(Head(ds)))>> \o MapTrimLower(Tail(ds))

\* Array.prototype.filter(Boolean) over a sequence of strings
RECURSIVE FilterNonEmpty(_)
FilterNonEmpty(ds) ==
    IF ds = <<>> THEN <<>>
    ELSE (IF Head(ds) = <<>> THEN <<>> ELSE <<Head(ds)>>) \o FilterNonEmpty(Tail(ds))

\* getWildcardDomains(): e is process.env, WILDCARD_DOMAINS an absent key when unset
getWildcardDomains(e) ==
    IF "WILDCARD_DOMAINS" \notin DOMAIN e \/ e.WILDCARD_DOMAINS = <<>> THEN <<>>
    ELSE FilterNonEmpty(MapTrimLower(split(e.WILDCARD_DOMAINS, ",")))

\* a variant of LowerHost that matches the hostname as it came
LowerHostRaw(hostname) == hostname

\* host = hostname.toLowerCase()
LowerHost(hostname) == toLowerCase(hostname)

\* host === domain || host.endsWith(`.${domain}`)
Matches(host, domain) == host = domain \/ endsWith(host, <<".">> \o domain)

\* a variant of MatchedRootIndex that takes the last root that matches
MatchedRootIndexLast(wildcardDomains, host) ==
    IF \E i \in DOMAIN wildcardDomains : Matches(host, wildcardDomains[i])
    THEN CHOOSE i \in DOMAIN wildcardDomains :
             /\ Matches(host, wildcardDomains[i])
             /\ \A j \in DOMAIN wildcardDomains :
                    Matches(host, wildcardDomains[j]) => j <= i
    ELSE 0

\* wildcardDomains.find(...): the index of the first root that matches, 0 when none does
MatchedRootIndex(wildcardDomains, host) ==
    IF \E i \in DOMAIN wildcardDomains : Matches(host, wildcardDomains[i])
    THEN CHOOSE i \in DOMAIN wildcardDomains :
             /\ Matches(host, wildcardDomains[i])
             /\ \A j \in 1..(i - 1) : ~Matches(host, wildcardDomains[j])
    ELSE 0

\* a variant of FirstLabel that keeps every label in front of the root
WholePart(subdomainPart) == subdomainPart

\* const [subdomain] = subdomainPart.split(".")
FirstLabel(subdomainPart) == split(subdomainPart, ".")[1]

\* getSubdomainFromHost(hostname) under environment e: the subdomain or null
getSubdomainFromHost(e, hostname) ==
    LET wildcardDomains == getWildcardDomains(e)
        host == LowerHost(hostname)
        found == MatchedRootIndex(wildcardDomains, host)
    IN  IF Len(wildcardDomains) = 0 THEN Null
        ELSE IF found = 0 THEN Null
        ELSE LET matchedRoot == wildcardDomains[found]
                 subdomainPart ==
                     IF Len(host) >= Len(matchedRoot) + 1
                     THEN SubSeq(host, 1, Len(host) - (Len(matchedRoot) + 1))
                     ELSE <<>>
             IN  IF host = matchedRoot THEN Null
                 ELSE IF subdomainPart = <<>> THEN Null
                 ELSE IF FirstLabel(subdomainPart) = <<>> THEN Null
                 ELSE Some(FirstLabel(subdomainPart))

\* values of process.env.WILDCARD_DOMAINS
WildcardDomainsInputs ==
    { <<"e",".","c","o">>,
      <<"e",".","c","o",",","a",".","e",".","c","o">>,
      <<"a",".","e",".","c","o",",","e",".","c","o">>,
      <<" ","E",".","c","o"," ",","," ","b",".","i","o">>,
      <<"e",".","c","o",",",",","b",".","i","o">>,
      <<>> }

\* process.env of the Next.js app as far as the resolver reads it
ResolverEnvs ==
    {[k \in {} |-> <<>>]} \cup {[WILDCARD_DOMAINS |-> raw] : raw \in WildcardDomainsInputs}

\* hostnames of inbound requests
HostnameInputs ==
    { <<"e",".","c","o">>,
      <<"a",".","e",".","c","o">>,
      <<"b",".","i","o">>,
      <<"x",".","e",".","c","o">>,
      <<"a",".","b",".","e",".","c","o">>,
      <<"x",".","a",".","e",".","c","o">>,
      <<"X",".","E",".","c","o">>,
      <<"X",".","e",".","c","o">>,
      <<"x",".","b",".","i","o">>,
      <<"x","e",".","c","o">>,
      <<"z",".","o","r","g">>,
      <<".","e",".","c","o">>,
      <<".",".","e",".","c","o">>,
      <<"x",".",".","e",".","c","o">>,
      <<"a",".","e",".","c","o",".">>,
      <<>> }

\* getSubdomainFromHost is called
CallGetSubdomainFromHost(e, hostname) ==
    /\ call' = [kind |-> "call", fn |-> "getSubdomainFromHost", env |-> e,
                hostname |-> hostname,
                result |-> getSubdomainFromHost(e, hostname)]
    /\ UNCHANGED <<domainVars, siteVars, httpResponse, siteForRequest>>

(***************************************************************************)
(* sites.ts getBySubdomain and http.ts: the tenant config read endpoint.   *)
(***************************************************************************)
ReservedSubdomains == { <<"a","d","m","i","n">>, <<"w","w","w">> }

ErrInvalidSubdomain ==
    <<"Invalid subdomain. Use only letters, numbers and dashes, do not start or end with a dash, and avoid reserved names like admin or www.">>
ErrSiteNotFound == <<"Site not found">>

\* ctx.storage.getUrl(id): a URL of the blob, null when the blob is gone
GetUrl(id) == IF id \in storage THEN Some(<<"blob", id>>) ELSE Null

\* site.faviconStorageId ? await ctx.storage.getUrl(site.faviconStorageId) : null
FaviconUrl(site) ==
    IF "faviconStorageId" \in DOMAIN site THEN GetUrl(site.faviconStorageId) ELSE Null

\* the query getBySubdomain: the error thrown, or null, or the site with its faviconUrl
getBySubdomain(a) ==
    LET subdomain == normalizeAndValidateSubdomain(a.subdomain)
    IN  IF ~subdomain.ok THEN Threw(subdomain.error)
        ELSE IF SitesBySubdomain(subdomain.value) = {} THEN Returned(Null)
        ELSE LET id == FirstBySubdomain(subdomain.value)
             IN  Returned(Some(Merge(sites[id],
                                     [_id |-> id, faviconUrl |-> FaviconUrl(sites[id])])))

\* the fields of the 200 body
PublicFields ==
    {"name", "subdomain", "title", "description", "primaryColor", "secondaryColor",
     "faviconUrl"}

\* url.pathname.split("/").filter(Boolean), its last element or ""
LastSegment(pathname) ==
    LET segments == FilterNonEmpty(split(pathname, "/"))
    IN  IF segments = <<>> THEN <<>> ELSE segments[Len(segments)]

Response(status, body) == [status |-> status, body |-> body]

\* the httpAction getSiteBySubdomain, for a request with this pathname: the
\* Response returned, or the error that leaves the handler
getSiteBySubdomain(pathname) ==
    LET subdomain == toLowerCase(trim(LastSegment(pathname)))
    IN  IF \/ subdomain = <<>>
           \/ ~MatchesSubdomainPattern(subdomain)
           \/ subdomain \in ReservedSubdomains
        THEN Returned(Response(400, [error |-> ErrInvalidSubdomain]))
        ELSE LET site == getBySubdomain([subdomain |-> subdomain])
             IN  IF site.kind = "threw" THEN site
                 ELSE IF site.value.isNull
                      THEN Returned(Response(404, [error |-> ErrSiteNotFound]))
                 ELSE Returned(Response(200, Pick(site.value.value, PublicFields)))

\* pathnames of GET requests
PathInputs ==
    { <<"/","a","b","c">>,
      <<"/","w","w","w">>,
      <<"/","a","b">>,
      <<"/">>,
      <<"/","-","a","b">>,
      <<"/","A","B","C">>,
      <<"/","x","/","a","b","c">>,
      <<"/","z","z","z">> }

\* GET pathname arrives at the endpoint
HttpGet(pathname) ==
    /\ httpResponse' = [kind |-> "call", pathname |-> pathname,
                        out |-> getSiteBySubdomain(pathname)]
    /\ UNCHANGED <<domainVars, siteVars, call, siteForRequest>>

(***************************************************************************)
(* siteConfig.ts getSiteForRequest: from the host header to the site.      *)
(* The fetch is answered by the endpoint from the tables as they are; the  *)
(* cache in front of it (revalidate: 120) is not modelled.                 *)
(***************************************************************************)
\* characters encodeURIComponent leaves as they are
UnreservedChars ==
    Range(LowerChars) \cup Range(UpperChars) \cup Digits
        \cup {"-", "_", ".", "!", "~", "*", "'", "(", ")"}

\* the escape of one character outside that set
PercentCode(c) ==
    CASE c = " " -> <<"%","2","0">>
      [] c = "/" -> <<"%","2","F">>
      [] c = ":" -> <<"%","3","A">>
      [] c = "," -> <<"%","2","C">>
      [] c = "%" -> <<"%","2","5">>

RECURSIVE encodeURIComponent(_)
encodeURIComponent(str) ==
    IF str = <<>> THEN <<>>
    ELSE (IF Head(str) \in UnreservedChars THEN <<Head(str)>> ELSE PercentCode(Head(str)))
             \o encodeURIComponent(Tail(str))

\* what fetch does with the request
FetchKinds == {"network", "ok"}

\* getSiteForRequest() under environment e, for a request with this host header
\* (null when the header is missing): the site config or null
getSiteForRequest(e, hostHeader, fetched) ==
    IF hostHeader.isNull THEN Null
    ELSE LET hostname == split(hostHeader.value, ":")[1]
             subdomain == getSubdomainFromHost(e, hostname)
         IN  IF subdomain.isNull THEN Null
             ELSE IF "NEXT_PUBLIC_CONVEX_SITE_URL" \notin DOMAIN e THEN Null
             ELSE IF fetched = "network" THEN Null
             ELSE LET res == getSiteBySubdomain(<<"/">> \o encodeURIComponent(subdomain.value))
                  IN  IF res.kind = "threw" THEN Null
                      ELSE IF res.value.status # 200 THEN Null
                      ELSE Some(res.value.body)

\* process.env of the Next.js app
RequestEnvs ==
    { [WILDCARD_DOMAINS |-> <<"e",".","c","o">>, NEXT_PUBLIC_CONVEX_SITE_URL |-> <<"https://c.site">>],
      [NEXT_PUBLIC_CONVEX_SITE_URL |-> <<"https://c.site">>],
      [WILDCARD_DOMAINS |-> <<"e",".","c","o">>] }

\* host headers of inbound requests
HostHeaderInputs ==
    { Null, Some(<<"a",".","i","o">>), Some(<<"a","b","c",".","e",".","c","o">>),
      Some(<<"A","B","C",".","e",".","c","o",":","3","0","0","0">>) }

\* a request reaches the Next.js app
GetSiteForRequest(e, hostHeader, fetched) ==
    /\ siteForRequest' = [kind |-> "call", env |-> e, hostHeader |-> hostHeader,
                          result |-> getSiteForRequest(e, hostHeader, fetched)]
    /\ UNCHANGED <<domainVars, siteVars, call, httpResponse>>

(***************************************************************************)
(* customDomains.ts getSiteByDomain, the query and the GET /by-domain       *)
(* endpoint in front of it.                                                *)
(***************************************************************************)
ErrDomainRequiredHttp == <<"Domain is required">>
ErrSiteNotFoundForDomain == <<"Site not found for domain">>

\* the by_domain lookup: ids of the documents with this domain, .first() being the oldest
DomainsByDomain(domain) == {id \in DOMAIN customDomains : customDomains[id].domain = domain}
FirstByDomain(domain) ==
    CHOOSE id \in DomainsByDomain(domain) : \A j \in DomainsByDomain(domain) : id <= j

\* const site = await ctx.db.get(record.siteId); if (!site)
OwnerMissing(siteId) == siteId \notin DOMAIN sites

\* the query getSiteByDomain: null, or the owning site's public fields
getSiteByDomain(a) ==
    LET domain == toLowerCase(trim(a.domain))
    IN  IF domain = <<>> THEN Null
        ELSE IF DomainsByDomain(domain) = {} THEN Null
        ELSE LET record == customDomains[FirstByDomain(domain)]
             IN  IF OwnerMissing(record.siteId) THEN Null
                 ELSE LET site == sites[record.siteId]
                      IN  Some([name |-> site.name,
                                subdomain |-> site.subdomain,
                                title |-> site.title,
                                description |-> site.description,
                                primaryColor |-> site.primaryColor,
                                secondaryColor |-> site.secondaryColor,
                                faviconUrl |-> FaviconUrl(site)])

\* a variant of getSiteByDomainHttp that passes the query's answer on unexamined
getSiteByDomainHttpUnchecked(rawDomain) ==
    LET domain == toLowerCase(trim(IF rawDomain.isNull THEN <<>> ELSE rawDomain.value))
    IN  IF domain = <<>> THEN Response(400, [error |-> ErrDomainRequiredHttp])
        ELSE Response(200, getSiteByDomain([domain |-> domain]))

\* the httpAction getSiteByDomain, for a request whose query string has this
\* domain parameter (null when it has none): the Response returned
getSiteByDomainHttp(rawDomain) ==
    LET domain == toLowerCase(trim(IF rawDomain.isNull THEN <<>> ELSE rawDomain.value))
    IN  IF domain = <<>> THEN Response(400, [error |-> ErrDomainRequiredHttp])
        ELSE LET site == getSiteByDomain([domain |-> domain])
             IN  IF site.isNull THEN Response(404, [error |-> ErrSiteNotFoundForDomain])
                 ELSE Response(200, site.value)

\* the query is run for a domain
QuerySiteByDomain(domain) ==
    /\ call' = [kind |-> "call", fn |-> "getSiteByDomain", domain |-> domain,
                result |-> getSiteByDomain([domain |-> domain])]
    /\ UNCHANGED <<domainVars, siteVars, httpResponse, siteForRequest>>

\* GET /by-domain arrives at the endpoint
HttpGetByDomain(rawDomain) ==
    /\ httpResponse' = [kind |-> "call", route |-> "/by-domain", rawDomain |-> rawDomain,
                        out |-> Returned(getSiteByDomainHttp(rawDomain))]
    /\ UNCHANGED <<domainVars, siteVars, call, siteForRequest>>

Init ==
    /\ customDomains = NoLocals
    /\ nextDomainId = 1
    /\ env = [p \in Procs |-> FullEnv]
    /\ pc = [p \in Procs |-> "idle"]
    /\ args = [p \in Procs |-> NoLocals]
    /\ loc = [p \in Procs |-> NoLocals]
    /\ outcome = [p \in Procs |-> Running]
    /\ calls = [p \in Procs |-> <<>>]
    /\ sites = NoLocals
    /\ nextSiteId = 1
    /\ storage = {}
    /\ now = 0
    /\ siteResult = Running
    /\ call = Running
    /\ httpResponse = Running
    /\ siteForRequest = Running

\* the custom-domain workflows, one invocation at a time, against every
\* environment and every behaviour of the provider
NextSeq == \E p \in {1} : Invoke(p, EnvValues, DomainInputs) \/ Step(p, ResponseKinds)

SpecSeq == Init /\ [][NextSeq]_vars

\* the custom-domain workflows on a configured deployment, invocations
\* interleaving at their awaits
Next ==
    \E p \in Procs : Invoke(p, {FullEnv}, RaceDomainInputs) \/ Step(p, {"non2xx", "ok"})

Spec == Init /\ [][Next]_vars

\* the sites mutations, each one transaction
NextSites ==
    \/ \E f \in SiteFieldInputs, sub \in SubdomainInputs :
         SitesCreate(Merge(f, [subdomain |-> sub]))
    \/ \E id \in IssuedSiteIds, f \in SiteFieldInputs, sub \in SubdomainInputs :
         SitesUpdate(id, Merge(f, [subdomain |-> sub]))
    \/ \E id \in IssuedSiteIds : SitesRemove(id)
    \/ \E b \in BlobIds : UploadFavicon(b)
    \/ Tick

SpecSites == Init /\ [][NextSites]_vars

\* the site form without a favicon, submitted with the subdomains that probe the validator
NextValidator ==
    \E f \in {g \in SiteFieldInputs : "faviconStorageId" \notin DOMAIN g}, sub \in ValidatorInputs :
        \/ SitesCreate(Merge(f, [subdomain |-> sub]))
        \/ \E id \in IssuedSiteIds : SitesUpdate(id, Merge(f, [subdomain |-> sub]))

SpecValidator == Init /\ [][NextValidator]_vars

\* raw values handed to normalizeDomain: padding, scheme, host and path in
\* every combination, and a host that stands off from its scheme
NormalizeInputs ==
    { w \o sch \o h \o pa \o w :
        w \in { <<>>, <<" ">> },
        sch \in { <<>>, <<"h","t","t","p",":","/","/">>, <<"H","T","T","P","S",":","/","/">> },
        h \in { <<>>, <<"a",".","i","o">>, <<"A",".","i","o">>, <<"a">>, <<"a",".">>, <<"a",".","i","o",".">>, <<"a",".","i","o",".",".">>, <<".">> },
        pa \in { <<>>, <<"/">>, <<"/","p">> } }
        \cup { <<"h","t","t","p",":","/","/"," ","a",".","i","o">> }

\* normalizeDomain is applied to one raw value
CallNormalizeDomain(raw) ==
    /\ call' = [kind |-> "call", fn |-> "normalizeDomain", raw |-> raw,
                result |-> normalizeDomain(raw)]
    /\ UNCHANGED <<domainVars, siteVars, httpResponse, siteForRequest>>

\* domains handed to deriveDnsInstruction
InstructionDomains ==
    { <<"a",".","i","o">>, <<"w","w","w",".","a",".","i","o">>, <<"x",".","y",".","a",".","i","o">>, <<"a">>, <<"a",".","i","o",".">> }

\* deriveDnsInstruction is applied to one domain and one provider answer
CallDeriveDnsInstruction(domain, config) ==
    /\ call' = [kind |-> "call", fn |-> "deriveDnsInstruction", domain |-> domain,
                config |-> config, result |-> deriveDnsInstruction(domain, config)]
    /\ UNCHANGED <<domainVars, siteVars, httpResponse, siteForRequest>>

\* deleteDomain is applied to one domain under one environment and one answer of the network
CallDeleteDomain(e, name, resp) ==
    /\ call' = [kind |-> "call", fn |-> "deleteDomain", env |-> e, name |-> name,
                resp |-> resp, result |-> deleteDomain(e, name, resp)]
    /\ UNCHANGED <<domainVars, siteVars, httpResponse, siteForRequest>>

\* the pure helpers, each applied to one input at a time
NextPure ==
    \/ \E e \in ResolverEnvs, hostname \in HostnameInputs :
         CallGetSubdomainFromHost(e, hostname)
    \/ \E raw \in NormalizeInputs : CallNormalizeDomain(raw)
    \/ \E domain \in InstructionDomains, config \in Configs :
         CallDeriveDnsInstruction(domain, config)
    \/ \E e \in EnvValues, name \in InstructionDomains :
         \E resp \in Responses(ResponseKinds, {[name |-> name]}) :
             CallDeleteDomain(e, name, resp)

SpecPure == Init /\ [][NextPure]_vars

\* subdomains submitted to the sites mutations next to the read endpoint
HttpSubdomainInputs == { <<"a","b","c">>, <<"w","w","w">>, <<"a","b">> }

\* the sites mutations and the GET endpoint that reads what they wrote
NextHttp ==
    \/ \E f \in SiteFieldInputs, sub \in HttpSubdomainInputs :
         SitesCreate(Merge(f, [subdomain |-> sub]))
    \/ \E id \in IssuedSiteIds, f \in SiteFieldInputs, sub \in HttpSubdomainInputs :
         SitesUpdate(id, Merge(f, [subdomain |-> sub]))
    \/ \E id \in IssuedSiteIds : SitesRemove(id)
    \/ \E b \in BlobIds : UploadFavicon(b)
    \/ \E pathname \in PathInputs : HttpGet(pathname)

SpecHttp == Init /\ [][NextHttp]_vars

\* one site, the custom-domain workflows run for it one at a time on a
\* configured deployment, and the requests the Next.js app resolves
NextRequest ==
    \/ \E f \in SiteFieldInputs : SitesCreate(Merge(f, [subdomain |-> <<"a","b","c">>]))
    \/ \E p \in {1} : Invoke(p, {FullEnv}, {<<"a",".","i","o">>}) \/ Step(p, {"non2xx", "ok"})
    \/ \E e \in RequestEnvs, hostHeader \in HostHeaderInputs, fetched \in FetchKinds :
         GetSiteForRequest(e, hostHeader, fetched)

SpecRequest == Init /\ [][NextRequest]_vars

\* a site with its custom domain: the site is created and removed, the
\* domain connected and refreshed on a configured deployment, and the domain
\* is read through the query and the endpoint
NextOrphans ==
    \/ \E f \in SiteFieldInputs : SitesCreate(Merge(f, [subdomain |-> <<"a","b","c">>]))
    \/ \E b \in BlobIds : UploadFavicon(b)
    \/ \E id \in IssuedSiteIds : SitesRemove(id)
    \/ \E siteId \in SiteIdInputs : CreateForSite(1, FullEnv, siteId, <<"a",".","i","o">>, FALSE)
    \/ \E id \in IssuedDomainIds : RefreshStatus(1, FullEnv, id)
    \/ \E kinds \in {{"non2xx", "ok"}} :
         \/ AttachApex(1, kinds)
         \/ FetchApex(1, kinds)
         \/ RefreshFetchConfig(1, kinds)
    \/ InsertApex(1)
    \/ RefreshPatchError(1)
    \/ RefreshPatchStatus(1)
    \/ \E domain \in {<<" ","A",".","i","o"," ">>, <<>>} :
         QuerySiteByDomain(domain)
    \/ \E rawDomain \in {Null, Some(<<"A",".","I","O">>), Some(<<"b",".","i","o">>)} :
         HttpGetByDomain(rawDomain)

SpecOrphans == Init /\ [][NextOrphans]_vars

\* answers of the network to one gateway request, the error bodies with the
\* message in either place
GatewayResponses(bodies) ==
    {[kind |-> "network"]}
        \cup {[kind |-> "non2xx", data |-> b] : b \in ErrorBodies \cup {[message |-> <<"denied">>]}}
        \cup {[kind |-> "ok", data |-> b] : b \in bodies}

\* addDomainToProject is applied under one environment to one answer of the network
CallAddDomainToProject(e, name, resp) ==
    /\ call' = [kind |-> "call", fn |-> "addDomainToProject", env |-> e, name |-> name,
                resp |-> resp, result |-> addDomainToProject(e, name, resp)]
    /\ UNCHANGED <<domainVars, siteVars, httpResponse, siteForRequest>>

\* getDomainConfig is applied under one environment to one answer of the network
CallGetDomainConfig(e, name, resp) ==
    /\ call' = [kind |-> "call", fn |-> "getDomainConfig", env |-> e, name |-> name,
                resp |-> resp, result |-> getDomainConfig(e, name, resp)]
    /\ UNCHANGED <<domainVars, siteVars, httpResponse, siteForRequest>>

\* the two failing operations of the gateway, each on its own and inside
\* createForSite, under every environment and every answer of the network
NextGateway ==
    \/ \E e \in [token : BOOLEAN, projectId : BOOLEAN] :
         \/ \E resp \in GatewayResponses({[name |-> <<"a",".","i","o">>]}) :
              CallAddDomainToProject(e, <<"a",".","i","o">>, resp)
         \/ \E resp \in GatewayResponses(WorkflowConfigs) :
              CallGetDomainConfig(e, <<"a",".","i","o">>, resp)
    \/ \E e \in EnvValues, siteId \in SiteIdInputs, redirectFromWww \in BOOLEAN :
         CreateForSite(1, e, siteId, <<"a",".","i","o">>, redirectFromWww)
    \/ \E kinds \in {ResponseKinds} :
         \/ AttachApex(1, kinds)
         \/ FetchApex(1, kinds)
         \/ AttachWww(1, kinds)
         \/ FetchWww(1, kinds)
    \/ InsertApex(1)
    \/ InsertWww(1)

SpecGateway == Init /\ [][NextGateway]_vars

(***************************************************************************)
(* Properties of the custom-domain workflows.                              *)
(***************************************************************************)

\* the invocation in slot p was a createForSite with redirectFromWww that ended
\* when its third gateway call, the attach of the www variant, threw
WwwAttachFailed(p) ==
    /\ pc[p] = "done"
    /\ args[p].fn = "createForSite"
    /\ args[p].redirectFromWww
    /\ outcome[p].kind = "threw"
    /\ Len(calls[p]) = 3
    /\ calls[p][3].op = "attach"

\* the domain createForSite stores for the apex: normalizeDomain(args.domain)
ApexOf(p) == normalizeDomain(args[p].domain).value

\* C1: when createForSite with redirectFromWww has stored the apex and attaching
\* the www variant then fails, the apex record is still in the registry when the
\* invocation ends, with the site it was created for and a status other than error.
C1_ApexKept ==
    \A p \in Procs :
        WwwAttachFailed(p) =>
            \E id \in DOMAIN customDomains :
                /\ customDomains[id].domain = ApexOf(p)
                /\ customDomains[id].siteId = args[p].siteId
                /\ customDomains[id].status # "error"

\* a createForSite ended on the provider's refusal of the www variant
C1_Witness ==
    \E p \in Procs :
        /\ WwwAttachFailed(p)
        /\ calls[p][3].sent
        /\ calls[p][3].name = WwwPrefix \o ApexOf(p)

\* C2: when attaching the www variant fails, the registry holds a second record
\* for the www domain with status error and a non-empty error message.
C2_WwwFailureRecorded ==
    \A p \in Procs :
        WwwAttachFailed(p) =>
            \E id \in DOMAIN customDomains :
                /\ customDomains[id].domain = WwwPrefix \o ApexOf(p)
                /\ customDomains[id].status = "error"
                /\ "error" \in DOMAIN customDomains[id]
                /\ customDomains[id].error # <<>>

\* the step of slot p that follows a failed config request of refreshStatus
C3_Step ==
    \A p \in Procs :
        (pc[p] = "patchError" /\ pc'[p] = "done" /\ HasDomainRecord(args[p].id)) =>
            LET id == args[p].id
            IN  /\ DOMAIN customDomains' = DOMAIN customDomains
                /\ customDomains'[id] =
                       Merge(customDomains[id],
                             [status |-> "error", error |-> loc[p].error])
                /\ Pick(customDomains'[id], VerificationKeys) =
                       Pick(customDomains[id], VerificationKeys)
                /\ \A other \in DOMAIN customDomains \ {id} :
                       customDomains'[other] = customDomains[other]
                /\ loc[p].error # <<>>
                /\ outcome'[p] = Threw(loc[p].error)

\* a refreshStatus whose config request failed has ended
RefreshFailed(p) ==
    /\ pc[p] = "done"
    /\ args[p].fn = "refreshStatus"
    /\ Len(calls[p]) = 1
    /\ outcome[p].kind = "threw"

\* C3: when refreshStatus runs on an existing record and the config request
\* fails, the record is patched to status error with the failure's message, the
\* invocation throws that same message, and the record's verification fields
\* (and every other record) are as they were before the patch.
C3_FailureRecorded ==
    /\ [][C3_Step]_vars
    /\ [](\A p \in Procs :
             RefreshFailed(p) =>
                 /\ HasDomainRecord(args[p].id)
                 /\ customDomains[args[p].id].status = "error"
                 /\ "error" \in DOMAIN customDomains[args[p].id]
                 /\ customDomains[args[p].id].error = outcome[p].error)

\* a refreshStatus ended on the provider's refusal, its record holding
\* verification fields from before
C3_Witness ==
    \E p \in Procs :
        /\ RefreshFailed(p)
        /\ calls[p][1].sent
        /\ customDomains[args[p].id].status = "error"
        /\ customDomains[args[p].id].error = outcome[p].error
        /\ "verificationType" \in DOMAIN customDomains[args[p].id]

\* C4: when removeFromProject has run on an existing record, the record is gone
\* from the registry and the invocation has returned normally, whatever the
\* detach did.
C4_RecordDeleted ==
    \A p \in Procs :
        (pc[p] = "done" /\ args[p].fn = "removeFromProject") =>
            /\ ~HasDomainRecord(args[p].id)
            /\ outcome[p] = Returned(<<>>)

\* a removeFromProject ended whose detach threw inside the gateway before any request
C4_Witness ==
    \E p \in Procs :
        /\ pc[p] = "done"
        /\ args[p].fn = "removeFromProject"
        /\ Len(calls[p]) = 1
        /\ calls[p][1].op = "detach"
        /\ ~calls[p][1].sent
        /\ ~HasDomainRecord(args[p].id)

\* slot p takes a new invocation in this step
Invoked(p) ==
    /\ ~InFlight(p)
    /\ <<pc[p], args[p], outcome[p], calls[p]>> # <<pc'[p], args'[p], outcome'[p], calls'[p]>>

\* the invocation of refreshStatus or removeFromProject on an id without a record
C5_Step ==
    \A p \in Procs :
        (/\ Invoked(p)
         /\ args'[p].fn \in {"refreshStatus", "removeFromProject"}
         /\ ~HasDomainRecord(args'[p].id)) =>
            /\ pc'[p] = "done"
            /\ customDomains' = customDomains
            /\ nextDomainId' = nextDomainId
            /\ calls'[p] = <<>>
            /\ outcome'[p] = IF args'[p].fn = "refreshStatus"
                             THEN Threw(ErrNotFound)
                             ELSE Returned(<<>>)

\* C5: for an id with no record, removeFromProject returns normally and
\* refreshStatus throws the not-found error; neither changes the registry nor
\* calls the provider.
C5_MissingRecord == [][C5_Step]_vars

\* a refreshStatus of a removed record has ended with the not-found error
C5_Witness ==
    \E p \in Procs :
        /\ pc[p] = "done"
        /\ args[p].fn = "refreshStatus"
        /\ ~HasDomainRecord(args[p].id)
        /\ outcome[p] = Threw(ErrNotFound)
        /\ calls[p] = <<>>

(***************************************************************************)
(* Properties of the sites mutations.                                      *)
(***************************************************************************)

\* C6: after any sequence of sites.create, sites.update and sites.remove, no
\* two documents of the sites table have the same subdomain.
C6_SubdomainsUnique ==
    \A i, j \in DOMAIN sites : i # j => sites[i].subdomain # sites[j].subdomain

\* two sites are there, and an update that asked for the other's subdomain was refused
C6_Witness ==
    /\ Cardinality(DOMAIN sites) = 2
    /\ siteResult.kind = "call"
    /\ siteResult.fn = "update"
    /\ siteResult.out = Threw(ErrSubdomainInUse)

\* sites.create is called, in this step, with a subdomain that normalizes to an existing one
CreateOfExisting ==
    /\ siteResult' # siteResult
    /\ siteResult'.fn = "create"
    /\ \E id \in DOMAIN sites :
           sites[id].subdomain = toLowerCase(trim(siteResult'.args.subdomain))

\* C7: sites.create with a subdomain that, trimmed and lowercased, is the
\* subdomain of an existing site throws the in-use error, inserts nothing and
\* leaves every document of the table as it was.
C7_CreateConflict ==
    [][CreateOfExisting =>
          /\ siteResult'.out = Threw(ErrSubdomainInUse)
          /\ sites' = sites
          /\ nextSiteId' = nextSiteId
          /\ storage' = storage]_vars

\* a create was refused whose subdomain differs from the existing one in case and padding
C7_Witness ==
    /\ siteResult.kind = "call"
    /\ siteResult.fn = "create"
    /\ siteResult.out = Threw(ErrSubdomainInUse)
    /\ siteResult.args.subdomain # toLowerCase(trim(siteResult.args.subdomain))
    /\ \E id \in DOMAIN sites :
           sites[id].subdomain = toLowerCase(trim(siteResult.args.subdomain))

(***************************************************************************)
(* Properties of the customDomains table.                                  *)
(***************************************************************************)

\* C8: after any interleaving of createForSite, refreshStatus and
\* removeFromProject, no two documents of the customDomains table have the same
\* domain; an apex and its www variant are different domains.
C8_DomainsUnique ==
    \A i, j \in DOMAIN customDomains :
        i # j => customDomains[i].domain # customDomains[j].domain

\* an apex and its www variant are both in the table
C8_Witness ==
    \E i, j \in DOMAIN customDomains :
        /\ i # j
        /\ customDomains[j].domain = WwwPrefix \o customDomains[i].domain

\* the insert mutation run by slot p in this step, for domain d
C9_Insert(p, d) ==
    /\ Cardinality({id \in DOMAIN customDomains' : customDomains'[id].domain = d}) = 1
    /\ IF InsertExisting(d)
       THEN /\ customDomains' = customDomains
            /\ nextDomainId' = nextDomainId
            /\ outcome'[p] = Threw(ErrAlreadyConnected(d))
       ELSE /\ DOMAIN customDomains' = DOMAIN customDomains \cup {nextDomainId}
            /\ \A id \in DOMAIN customDomains : customDomains'[id] = customDomains[id]
            /\ outcome'[p].kind # "threw"

\* C9: when createForSite invocations for the same normalized domain
\* interleave, each insert is one atomic step of the registry: one that finds
\* the domain absent adds exactly one record, one that finds it present adds
\* nothing and ends its invocation with the duplicate error, and after either
\* exactly one record has the domain.
C9_AtomicReject ==
    [][\A p \in Procs :
          /\ (pc[p] = "insertApex" /\ pc'[p] # "insertApex")
                => C9_Insert(p, loc[p].apexDomain)
          /\ (pc[p] = "insertWww" /\ pc'[p] # "insertWww")
                => C9_Insert(p, loc[p].wwwDomain)]_vars

\* two overlapping createForSite invocations gave two spellings of one domain:
\* one has inserted and returned, the other ended with the duplicate error
C9_Witness ==
    \E p, q \in Procs :
        /\ p # q
        /\ pc[p] = "done" /\ pc[q] = "done"
        /\ args[p].fn = "createForSite" /\ args[q].fn = "createForSite"
        /\ args[p].domain # args[q].domain
        /\ ApexOf(p) = ApexOf(q)
        /\ outcome[p].kind = "returned"
        /\ outcome[q] = Threw(ErrAlreadyConnected(ApexOf(q)))
        /\ Cardinality({id \in DOMAIN customDomains :
                           customDomains[id].domain = ApexOf(p)}) = 1

\* the status literals of the customDomains table
Statuses == {"pending", "active", "error"}

\* a status changes only in a patch of refreshStatus: to what the provider's
\* answer gives, active or pending, or to error after a failure
C10_Step ==
    \A id \in DOMAIN customDomains \cap DOMAIN customDomains' :
        customDomains'[id].status # customDomains[id].status =>
            \E p \in Procs :
                /\ args[p].fn = "refreshStatus"
                /\ args[p].id = id
                /\ \/ /\ pc[p] = "patchStatus"
                      /\ customDomains'[id].status = loc[p].dns.status
                      /\ customDomains'[id].status \in {"active", "pending"}
                   \/ /\ pc[p] = "patchError"
                      /\ customDomains'[id].status = "error"

\* C10: every record's status is pending, active or error; only refreshStatus
\* changes a status, to active or pending when the provider answered and to
\* error when it failed; a removed record is absent, not marked.
C10_StatusMachine ==
    /\ [](\A id \in DOMAIN customDomains : customDomains[id].status \in Statuses)
    /\ [][C10_Step]_vars
    /\ [](\A p \in Procs :
             (pc[p] = "done" /\ args[p].fn = "removeFromProject"
                 /\ outcome[p].kind = "returned") => ~HasDomainRecord(args[p].id))

\* a refreshStatus has returned active for a record that still carries the
\* message of an earlier failed refresh: the record went from error to active
C10_Witness ==
    \E p \in Procs :
        /\ pc[p] = "done"
        /\ args[p].fn = "refreshStatus"
        /\ outcome[p].kind = "returned"
        /\ outcome[p].value.status = "active"
        /\ customDomains[args[p].id].status = "active"
        /\ "error" \in DOMAIN customDomains[args[p].id]

(***************************************************************************)
(* Properties of the hostname resolver.                                    *)
(***************************************************************************)

\* getSubdomainFromHost was the last pure call
IsResolverCall == call.kind = "call" /\ call.fn = "getSubdomainFromHost"

\* the ordered list of wildcard roots of that call
RootsOfCall == getWildcardDomains(call.env)

\* what stands in h in front of "." \o r
Before(h, r) == SubSeq(h, 1, Len(h) - (Len(r) + 1))

\* h = sub + "." + r with sub non-empty and without a dot
IsOneLabelUnder(h, r) ==
    /\ Len(h) > Len(r) + 1
    /\ endsWith(h, <<".">> \o r)
    /\ "." \notin Range(Before(h, r))

\* host is an element of R and no root before its first occurrence is a dot-suffix of it
IsFirstMatchItself(R, host) ==
    \E k \in DOMAIN R :
        /\ R[k] = host
        /\ \A j \in 1..(k - 1) : ~endsWith(host, <<".">> \o R[j])

\* C11 as claimed: for h = sub + "." + r with r in R and sub non-empty and
\* dotless, the resolver returns sub, also when roots of R are suffixes of one
\* another or h is itself in R.
C11_ReturnsSub ==
    IsResolverCall =>
        \A r \in Range(RootsOfCall) :
            IsOneLabelUnder(call.hostname, r) =>
                call.result = Some(Before(call.hostname, r))

\* C11 as amended: for such an h the resolver returns sub in lowercase, unless
\* the lowercased h is itself the first root of R that matches it, and then it
\* returns null.
C11_ReturnsSubUnlessRoot ==
    IsResolverCall =>
        \A r \in Range(RootsOfCall) :
            IsOneLabelUnder(call.hostname, r) =>
                call.result =
                    IF IsFirstMatchItself(RootsOfCall, toLowerCase(call.hostname))
                    THEN Null
                    ELSE Some(toLowerCase(Before(call.hostname, r)))

\* a host that is itself a root was resolved to its label under a shorter root before it
C11_Witness ==
    /\ IsResolverCall
    /\ call.hostname \in Range(RootsOfCall)
    /\ ~call.result.isNull
    /\ \E r \in Range(RootsOfCall) :
           /\ IsOneLabelUnder(call.hostname, r)
           /\ call.result.value = Before(call.hostname, r)

\* C12 as claimed: resolving a host that is an element of R returns null,
\* whatever else R holds and in whatever order.
C12_BareRootNone ==
    (IsResolverCall /\ call.hostname \in Range(RootsOfCall)) => call.result = Null

\* the first label of a non-empty part, null when it is empty
LabelOrNull(part) ==
    IF part = <<>> \/ part[1] = "." THEN Null
    ELSE IF "." \in Range(part) THEN Some(SubSeq(part, 1, indexOf(part, ".") - 1))
    ELSE Some(part)

\* C12 as amended: resolving r in R returns null when no root before r in R
\* is a dot-suffix of r; when one is, the first such root decides and the
\* result is the first label of r in front of it.
C12_BareRootNoneUnlessShadowed ==
    (IsResolverCall /\ call.hostname \in Range(RootsOfCall)) =>
        LET R == RootsOfCall
            host == call.hostname
        IN  IF IsFirstMatchItself(R, host) THEN call.result = Null
            ELSE \E j \in DOMAIN R :
                    /\ endsWith(host, <<".">> \o R[j])
                    /\ \A i \in 1..(j - 1) : ~endsWith(host, <<".">> \o R[i])
                    /\ call.result = LabelOrNull(Before(host, R[j]))

\* a root was resolved to null although a later root of R is a dot-suffix of it
C12_Witness ==
    /\ IsResolverCall
    /\ call.hostname \in Range(RootsOfCall)
    /\ call.result = Null
    /\ \E r \in Range(RootsOfCall) : endsWith(call.hostname, <<".">> \o r)

\* C13: when the host has more than one label in front of the first root that
\* matches it, the resolver returns the leftmost label alone, a normal result.
C13_FirstLabel ==
    IsResolverCall =>
        LET R == RootsOfCall
            host == toLowerCase(call.hostname)
        IN  \A i \in DOMAIN R :
                (/\ endsWith(host, <<".">> \o R[i])
                 /\ \A j \in 1..(i - 1) : ~(host = R[j] \/ endsWith(host, <<".">> \o R[j]))
                 /\ LET labels == split(Before(host, R[i]), ".")
                    IN  Len(labels) > 1 /\ \A k \in DOMAIN labels : labels[k] # <<>>)
                => call.result = Some(split(Before(host, R[i]), ".")[1])

\* a host with two labels in front of its root was resolved to the first of them
C13_Witness ==
    /\ IsResolverCall
    /\ ~call.result.isNull
    /\ \E r \in Range(RootsOfCall) :
           /\ endsWith(toLowerCase(call.hostname), <<".">> \o r)
           /\ Len(Before(toLowerCase(call.hostname), r)) > Len(call.result.value) + 1
           /\ startsWith(Before(toLowerCase(call.hostname), r), call.result.value \o <<".">>)
           /\ "." \notin Range(SubSeq(Before(toLowerCase(call.hostname), r),
                                      Len(call.result.value) + 2,
                                      Len(Before(toLowerCase(call.hostname), r))))

(***************************************************************************)
(* Properties of the tenant config read endpoint.                          *)
(***************************************************************************)

\* a GET is answered in this step
Answered == httpResponse' # httpResponse

\* the last sites mutation was a create that succeeded
LastCreated ==
    /\ siteResult.kind = "call"
    /\ siteResult.fn = "create"
    /\ siteResult.out.kind = "returned"

\* C17: when sites.create has succeeded with subdomain s and no sites mutation
\* has run since, GET /s is answered 200 with the title given to create.
C17_CreateThenGet ==
    [][(/\ Answered
        /\ LastCreated
        /\ httpResponse'.pathname = <<"/">> \o sites[siteResult.out.value].subdomain)
       => /\ httpResponse'.out.kind = "returned"
          /\ httpResponse'.out.value.status = 200
          /\ httpResponse'.out.value.body.title = siteResult.args.title]_vars

\* the validity rules of the claim: 3 to 63 characters of the pattern, not reserved
IsServableSubdomain(subdomain) ==
    /\ Len(subdomain) >= MinSubdomainLength
    /\ Len(subdomain) <= MaxSubdomainLength
    /\ MatchesSubdomainPattern(subdomain)
    /\ subdomain \notin ReservedSubdomains

\* C18: every GET /{subdomain} is answered 400 when the subdomain breaks the
\* validity rules (3 to 63 characters among them) or is reserved, 404 when it
\* is valid and no site has it, and 200 with the site's public fields
\* otherwise; the handler never ends with an error.
C18_ThreeResponses ==
    [][Answered =>
          LET r == httpResponse'
              subdomain == toLowerCase(trim(LastSegment(r.pathname)))
              holders == {id \in DOMAIN sites : sites[id].subdomain = subdomain}
          IN  /\ r.out.kind = "returned"
              /\ r.out.value.status =
                     IF ~IsServableSubdomain(subdomain) THEN 400
                     ELSE IF holders = {} THEN 404
                     ELSE 200
              /\ r.out.value.status = 200 =>
                     \E id \in holders :
                         r.out.value.body =
                             Pick(Merge(sites[id], [faviconUrl |-> FaviconUrl(sites[id])]),
                                  PublicFields)]_vars

(***************************************************************************)
(* Properties of request resolution.                                       *)
(***************************************************************************)

\* a request is resolved in this step
Resolved == siteForRequest' # siteForRequest

\* the hostname of a host header: what stands before the port
HostnameOf(hostHeader) == split(hostHeader.value, ":")[1]

\* C14: a request whose host matches no wildcard root, or that arrives when
\* none is configured, is looked up as a custom domain: when a customDomains
\* record has exactly that domain and its site exists, the request resolves to
\* that site's configuration, not to null.
C14_CustomDomainLookup ==
    [][Resolved =>
          LET r == siteForRequest'
          IN  (/\ ~r.hostHeader.isNull
               /\ \A i \in DOMAIN getWildcardDomains(r.env) :
                      ~Matches(toLowerCase(HostnameOf(r.hostHeader)),
                               getWildcardDomains(r.env)[i]))
              => \A id \in DOMAIN customDomains :
                     (/\ customDomains[id].domain = HostnameOf(r.hostHeader)
                      /\ customDomains[id].siteId \in DOMAIN sites)
                     => /\ ~r.result.isNull
                        /\ r.result.value.subdomain =
                               sites[customDomains[id].siteId].subdomain
                        /\ r.result.value.title = sites[customDomains[id].siteId].title]_vars

(***************************************************************************)
(* Properties of the subdomain validator.                                  *)
(***************************************************************************)

\* [a-z0-9]+(-[a-z0-9]+)*: letters, digits and dashes, not empty, and every
\* dash stands between two letters or digits
IsLetterOrDigit(c) == c \in Range(LowerChars) \cup Digits
InGrammar(s) ==
    /\ s # <<>>
    /\ \A i \in DOMAIN s :
           \/ IsLetterOrDigit(s[i])
           \/ /\ s[i] = "-"
              /\ i > 1
              /\ i < Len(s)
              /\ IsLetterOrDigit(s[i - 1])
              /\ IsLetterOrDigit(s[i + 1])

\* the form of a raw input the claim speaks of, and whether it is acceptable
Form(raw) == toLowerCase(trim(raw))
Acceptable(raw) ==
    \E form \in {Form(raw)} :
        /\ Len(form) >= 3
        /\ Len(form) <= 63
        /\ InGrammar(form)

\* the errors of the validator
ValidationErrors == {ErrSubdomainRequired, ErrSubdomainLength, ErrSubdomainPattern}

\* create or update is called in this step
FormSubmitted ==
    /\ siteResult' # siteResult
    /\ siteResult'.fn \in {"create", "update"}

\* C15: create and update fail with a validation error exactly when the
\* trimmed, lowercased subdomain is not 3 to 63 characters matching
\* [a-z0-9]+(-[a-z0-9]+)*; the empty string, a leading or trailing dash, an
\* underscore, and a length below 3 or above 63 are rejected; and every
\* subdomain a call stores is the trimmed, lowercased input.
C15_Validator ==
    [][FormSubmitted =>
          \A form \in {Form(siteResult'.args.subdomain)},
             acceptable \in {Acceptable(siteResult'.args.subdomain)} :
          LET out == siteResult'.out
              rejected == out.kind = "threw" /\ out.error \in ValidationErrors
          IN  /\ rejected <=> ~acceptable
              /\ (\/ form = <<>>
                  \/ Len(form) < 3
                  \/ Len(form) > 63
                  \/ "_" \in Range(form)
                  \/ form[1] = "-"
                  \/ form[Len(form)] = "-") => rejected
              /\ out.kind = "returned" =>
                     LET id == IF siteResult'.fn = "create" THEN out.value
                               ELSE siteResult'.args.id
                     IN  id \in DOMAIN sites' /\ sites'[id].subdomain = form
              /\ \A id \in DOMAIN sites' :
                     (id \notin DOMAIN sites \/ sites'[id].subdomain # sites[id].subdomain)
                         => sites'[id].subdomain = form /\ acceptable]_vars

\* a padded, capitalised subdomain was stored trimmed and in lowercase
C15_Witness ==
    /\ siteResult.kind = "call"
    /\ siteResult.fn = "update"
    /\ siteResult.args.subdomain = <<" ","M","y","-","S","i","t","e"," ">>
    /\ siteResult.out.kind = "returned"
    /\ sites[siteResult.args.id].subdomain = <<"m","y","-","s","i","t","e">>

\* sites.update is called in this step on a site that exists
UpdateOfSite ==
    /\ siteResult' # siteResult
    /\ siteResult'.fn = "update"
    /\ siteResult'.args.id \in DOMAIN sites

\* C16: sites.update checks the subdomain against the other sites only: an
\* update that keeps the site's own subdomain succeeds, and an update to a
\* subdomain that a different site holds fails and leaves the sites table,
\* both documents included, as it was.
C16_UpdateExcludesSelf ==
    [][UpdateOfSite =>
          \A id \in {siteResult'.args.id}, sub \in {Form(siteResult'.args.subdomain)} :
              /\ sites[id].subdomain = sub =>
                     /\ siteResult'.out = Returned(<<>>)
                     /\ sites'[id].subdomain = sub
              /\ (\E other \in DOMAIN sites \ {id} : sites[other].subdomain = sub) =>
                     /\ siteResult'.out = Threw(ErrSubdomainInUse)
                     /\ sites' = sites]_vars

\* two sites hold the two subdomains there are, and the last call, an update
\* of one of them that spelled its own subdomain differently, succeeded
C16_Witness ==
    /\ Cardinality(DOMAIN sites) = 2
    /\ siteResult.kind = "call"
    /\ siteResult.fn = "update"
    /\ siteResult.out = Returned(<<>>)
    /\ siteResult.args.subdomain # Form(siteResult.args.subdomain)
    /\ sites[siteResult.args.id].subdomain = Form(siteResult.args.subdomain)

(***************************************************************************)
(* Properties of the pure helpers of the provider gateway.                 *)
(***************************************************************************)

\* the last call is one of normalizeDomain
IsNormalizeCall == call.kind = "call" /\ call.fn = "normalizeDomain"

\* C19: normalizeDomain fails with a validation error or returns a dotted
\* hostname: a returned value is lowercase, has no http(s) scheme, no "/", no
\* trailing dot, and at least one dot.
C19_DottedHostname ==
    IsNormalizeCall =>
        \/ ~call.result.ok /\ call.result.error \in {ErrDomainRequired, ErrInvalidDomain}
        \/ /\ call.result.ok
           /\ \A value \in {call.result.value} :
                  /\ \A i \in DOMAIN value : value[i] \notin Range(UpperChars)
                  /\ ~startsWith(value, HttpScheme)
                  /\ ~startsWith(value, HttpsScheme)
                  /\ "/" \notin Range(value)
                  /\ "." \in Range(value)
                  /\ value[Len(value)] # "."

\* the last call is one of deriveDnsInstruction
IsInstructionCall == call.kind = "call" /\ call.fn = "deriveDnsInstruction"

\* the labels of a domain: its non-empty runs of characters other than "."
LabelStarts(domain) ==
    {i \in DOMAIN domain : domain[i] # "." /\ (i = 1 \/ domain[i - 1] = ".")}

\* what the provider's answer recommends
OffersAddress(config) ==
    \E i \in DOMAIN config.recommendedIPv4 : config.recommendedIPv4[i].value # <<>>
OffersCname(config) == config.recommendedCNAME # <<>>

\* C20: for a domain of exactly two labels the instruction is an A record
\* when the recommended IPv4 list offers an address and otherwise a CNAME
\* when one is recommended; for any other domain it is the CNAME when one is
\* recommended and otherwise the A record; and the verification type, name
\* and value are missing exactly when neither is recommended.
C20_RecordTypeByShape ==
    IsInstructionCall =>
        LET config == call.config
            result == call.result
            isApex == Cardinality(LabelStarts(call.domain)) = 2
            a == OffersAddress(config)
            c == OffersCname(config)
            expected == IF isApex THEN (IF a THEN "A" ELSE "CNAME")
                        ELSE (IF c THEN "CNAME" ELSE "A")
        IN  /\ (VerificationKeys \cap DOMAIN result = {}) <=> (~a /\ ~c)
            /\ (a \/ c) =>
                   /\ VerificationKeys \subseteq DOMAIN result
                   /\ result.verificationType = expected
                   /\ result.verificationName = call.domain
                   /\ result.verificationValue =
                          IF expected = "A" THEN config.recommendedIPv4[1].value[1]
                          ELSE config.recommendedCNAME[1].value

\* an apex domain got the A record although a CNAME was recommended as well
C20_Witness ==
    /\ IsInstructionCall
    /\ call.domain = <<"a",".","i","o">>
    /\ OffersAddress(call.config)
    /\ OffersCname(call.config)
    /\ call.result.verificationType = "A"

\* C21: the status deriveDnsInstruction returns is active exactly when the
\* provider's misconfigured flag is false and pending otherwise, whatever is
\* recommended; it is never error.
C21_StatusFromFlag ==
    IsInstructionCall =>
        /\ call.result.status = "active" <=> ~call.config.misconfigured
        /\ call.result.status = "pending" <=> call.config.misconfigured
        /\ call.result.status # "error"

\* a domain the provider holds to be configured is active although nothing is recommended for it
C21_Witness ==
    /\ IsInstructionCall
    /\ ~call.config.misconfigured
    /\ ~OffersAddress(call.config)
    /\ ~OffersCname(call.config)
    /\ call.result.status = "active"

\* the last call is one of deleteDomain
IsDetachCall == call.kind = "call" /\ call.fn = "deleteDomain"

\* C22: deleteDomain raises nothing to its caller, whether the provider
\* answers 2xx or non-2xx, the network fails, or the credential is unset.
C22_DetachNeverThrows == IsDetachCall => ~call.result.threw

\* deleteDomain came back although the credential was unset, and although fetch rejected
C22_Witness ==
    /\ IsDetachCall
    /\ ~call.result.threw
    /\ \/ ~call.env.token /\ ~call.result.sent
       \/ call.env.token /\ call.resp.kind = "network"

(***************************************************************************)
(* Properties of the order of the workflows' steps.                        *)
(***************************************************************************)

\* the gateway operations an invocation has made so far, without their outcome
OpsOf(p) == [i \in DOMAIN calls[p] |-> <<calls[p][i].op, calls[p][i].name>>]

\* the gateway operations a createForSite invocation makes when nothing fails
ExpectedOps(p) ==
    LET apexDomain == normalizeDomain(args[p].domain)
        wwwDomain == WwwPrefix \o apexDomain.value
    IN  IF ~apexDomain.ok THEN <<>>
        ELSE <<(<<"attach", apexDomain.value>>), (<<"fetchConfig", apexDomain.value>>)>>
             \o (IF args[p].redirectFromWww
                  THEN <<(<<"attach", wwwDomain>>), (<<"fetchConfig", wwwDomain>>)>>
                  ELSE <<>>)

IsPrefix(s, t) == Len(s) <= Len(t) /\ s = SubSeq(t, 1, Len(s))

\* the order of the steps as far as a state shows it
C23_Order ==
    \A p \in Procs :
        /\ (pc[p] # "idle" /\ args[p].fn = "createForSite") =>
               /\ IsPrefix(OpsOf(p), ExpectedOps(p))
               /\ Len(calls[p]) >= 3 =>
                      \E id \in DOMAIN customDomains :
                          customDomains[id].domain = ExpectedOps(p)[1][2]
               /\ outcome[p].kind = "returned" => OpsOf(p) = ExpectedOps(p)
        /\ (pc[p] # "idle" /\ args[p].fn = "refreshStatus") =>
               /\ Len(calls[p]) <= 1
               /\ \A i \in DOMAIN calls[p] : calls[p][i].op = "fetchConfig"
               /\ (pc[p] = "done" /\ outcome[p] # Threw(ErrNotFound)) => Len(calls[p]) = 1
        /\ (pc[p] # "idle" /\ args[p].fn = "removeFromProject") =>
               /\ Len(calls[p]) <= 1
               /\ \A i \in DOMAIN calls[p] : calls[p][i].op = "detach"

\* the order of the steps as far as a step shows it: an invocation that has
\* ended makes no further call (its log stays, or is emptied by the next
\* invocation), and a document is inserted for the domain whose config was
\* fetched last
C23_Step ==
    \A p \in Procs :
        /\ pc[p] = "done" => (calls'[p] = calls[p] \/ calls'[p] = <<>>)
        /\ (pc[p] \in {"insertApex", "insertWww"} /\ pc'[p] # pc[p]
                /\ DOMAIN customDomains' # DOMAIN customDomains) =>
               /\ calls'[p] = calls[p]
               /\ Len(calls[p]) \in {2, 4}
               /\ calls[p][Len(calls[p])].op = "fetchConfig"
               /\ \A id \in DOMAIN customDomains' \ DOMAIN customDomains :
                      customDomains'[id].domain = calls[p][Len(calls[p])].name

\* C23: a createForSite invocation makes its calls in the order attach(apex),
\* fetchConfig(apex), insert(apex) and, only with redirectFromWww, attach(www),
\* fetchConfig(www), insert(www); it makes each call at most once for a domain
\* and none after the first failure. refreshStatus on a record it finds calls
\* fetchConfig exactly once, and removeFromProject calls detach at most once.
C23_SequentialNoRetry == []C23_Order /\ [][C23_Step]_vars

\* a createForSite with redirectFromWww ran to its end: four calls, two documents
C23_Witness ==
    \E p \in Procs :
        /\ pc[p] = "done"
        /\ args[p].fn = "createForSite"
        /\ args[p].redirectFromWww
        /\ outcome[p].kind = "returned"
        /\ Len(calls[p]) = 4
        /\ outcome[p].value.wwwId \in DOMAIN customDomains

(***************************************************************************)
(* Properties of a site's removal and of the reads by domain.              *)
(***************************************************************************)

\* sites.remove is called in this step
RemoveCalled ==
    /\ siteResult' # siteResult
    /\ siteResult'.fn = "remove"

\* C24: sites.remove leaves every customDomains document as it was, those of
\* the removed site included; it succeeds on a site whose favicon blob, if it
\* references one, is stored, and when it succeeds the site's document is
\* gone, the blob it referenced is gone from storage, and the other sites are
\* as they were.
C24_NoCascade ==
    [][RemoveCalled =>
          LET id == siteResult'.args.id
          IN  /\ customDomains' = customDomains
              /\ nextDomainId' = nextDomainId
              /\ (/\ id \in DOMAIN sites
                  /\ "faviconStorageId" \in DOMAIN sites[id] =>
                         sites[id].faviconStorageId \in storage)
                     => siteResult'.out = Returned(<<>>)
              /\ siteResult'.out = Returned(<<>>) =>
                     /\ id \in DOMAIN sites
                     /\ sites' = [i \in DOMAIN sites \ {id} |-> sites[i]]
                     /\ "faviconStorageId" \in DOMAIN sites[id] =>
                            sites[id].faviconStorageId \notin storage']_vars

\* a site was removed whose favicon blob is gone with it and whose custom domain stays behind
C24_Witness ==
    /\ siteResult.kind = "call"
    /\ siteResult.fn = "remove"
    /\ siteResult.out = Returned(<<>>)
    /\ siteResult.args.id \notin DOMAIN sites
    /\ storage = {}
    /\ nextSiteId = 2
    /\ \E d \in DOMAIN customDomains : customDomains[d].siteId = siteResult.args.id

\* the documents of a domain as the reads look it up, and what the reads show of a site
RecordsOf(rawDomain) ==
    {id \in DOMAIN customDomains : customDomains[id].domain = toLowerCase(trim(rawDomain))}
PublicProjection(site) ==
    Merge(Pick(site, PublicFields \ {"faviconUrl"}), [faviconUrl |-> FaviconUrl(site)])

\* the query answers in this step
QueryAnswered ==
    /\ call' # call
    /\ call'.fn = "getSiteByDomain"

\* the endpoint answers in this step, to a request that names a domain
ByDomainAnswered ==
    /\ httpResponse' # httpResponse
    /\ httpResponse'.route = "/by-domain"
    /\ ~httpResponse'.rawDomain.isNull

\* C30: for a domain whose document references a site that is gone,
\* getSiteByDomain returns null and GET /by-domain answers 404, neither of
\* them failing; for a domain whose document and site both exist they return
\* the site's public fields, whatever the document's status.
C30_OrphansTolerated ==
    [][/\ QueryAnswered =>
              \A id \in RecordsOf(call'.domain) :
                  IF customDomains[id].siteId \notin DOMAIN sites
                  THEN call'.result = Null
                  ELSE call'.result = Some(PublicProjection(sites[customDomains[id].siteId]))
       /\ ByDomainAnswered =>
              /\ httpResponse'.out.kind = "returned"
              /\ \A id \in RecordsOf(httpResponse'.rawDomain.value) :
                     IF customDomains[id].siteId \notin DOMAIN sites
                     THEN httpResponse'.out.value.status = 404
                     ELSE httpResponse'.out.value =
                              Response(200, PublicProjection(sites[customDomains[id].siteId]))]_vars

\* the query and the endpoint had no site to show for a domain whose document outlived its site
C30_Witness ==
    /\ call.kind = "call"
    /\ call.fn = "getSiteByDomain"
    /\ call.result = Null
    /\ httpResponse.kind = "call"
    /\ httpResponse.out.value.status = 404
    /\ \E id \in RecordsOf(call.domain) :
           /\ id \in RecordsOf(httpResponse.rawDomain.value)
           /\ customDomains[id].siteId \notin DOMAIN sites
           /\ customDomains[id].status = "error"

(***************************************************************************)
(* Properties of the gateway's failures.                                   *)
(***************************************************************************)

\* the last call is one of the two gateway operations that fail
IsGatewayCall ==
    call.kind = "call" /\ call.fn \in {"addDomainToProject", "getDomainConfig"}

\* the configuration error of an operation under environment e, none when e is complete
ConfigErrorOf(op, e) ==
    IF op = "attach" /\ ~e.projectId THEN <<ErrMissingProjectId>>
    ELSE IF ~e.token THEN <<ErrMissingToken>>
    ELSE <<>>

\* the message in the body of a non-2xx answer
ProviderMessage(data) == IF "error" \in DOMAIN data THEN data.error.message ELSE data.message

\* the gateway operations on their own
C25_Gateway ==
    IsGatewayCall =>
        LET op == IF call.fn = "addDomainToProject" THEN "attach" ELSE "fetchConfig"
            configError == ConfigErrorOf(op, call.env)
            r == call.result
        IN  /\ configError # <<>> =>
                   /\ r.threw
                   /\ ~r.sent
                   /\ r.error = configError[1]
            /\ (configError = <<>> /\ call.resp.kind = "non2xx") =>
                   /\ r.threw
                   /\ r.sent
                   /\ endsWith(r.error, ProviderMessage(call.resp.data))
            /\ (configError = <<>> /\ call.resp.kind = "ok") => ~r.threw

\* the step of createForSite that attaches the apex or fetches its config
C25_Step ==
    \A p \in Procs :
        (/\ pc[p] \in {"attachApex", "fetchApex"}
         /\ pc'[p] # pc[p]) =>
            LET op == IF pc[p] = "attachApex" THEN "attach" ELSE "fetchConfig"
                configError == ConfigErrorOf(op, env[p])
                last == calls'[p][Len(calls'[p])]
            IN  /\ Len(calls'[p]) = Len(calls[p]) + 1
                /\ last.op = op
                /\ last.sent <=> configError = <<>>
                /\ configError # <<>> =>
                       /\ pc'[p] = "done"
                       /\ outcome'[p] = Threw(configError[1])
                /\ pc'[p] = "done" =>
                       /\ outcome'[p].kind = "threw"
                       /\ customDomains' = customDomains
                       /\ \/ configError # <<>>
                          \/ outcome'[p].error = ErrFetchFailed
                          \/ \E b \in ErrorBodies :
                                 endsWith(outcome'[p].error, ProviderMessage(b))
                /\ pc'[p] # "done" => outcome'[p] = Running

\* C25: attach and fetchConfig fail with a configuration error, without a
\* network call, when the token is unset, and attach also when the project
\* id is unset; on a non-2xx answer they fail with an error that carries the
\* provider's message; and in createForSite either failure on the apex ends
\* the invocation with that error.
C25_GatewayFailures == []C25_Gateway /\ [][C25_Step]_vars

\* fetchConfig failed on its own for want of the token without a request, and
\* a createForSite ended at its attach on a non-2xx answer
C25_Witness ==
    /\ IsGatewayCall
    /\ call.fn = "getDomainConfig"
    /\ ~call.env.token
    /\ call.result.threw
    /\ ~call.result.sent
    /\ \E p \in Procs :
           /\ pc[p] = "done"
           /\ args[p].fn = "createForSite"
           /\ Len(calls[p]) = 1
           /\ calls[p][1].sent
           /\ outcome[p].kind = "threw"
           /\ \E b \in ErrorBodies : endsWith(outcome[p].error, ProviderMessage(b))

(***************************************************************************)
(* Properties of the error message of a record.                            *)
(***************************************************************************)

\* C26: a customDomains document carries an error message only while its
\* status is error: a refreshStatus that succeeds on a document in status
\* error clears the message.
C26_ErrorOnlyInErrorStatus ==
    \A id \in DOMAIN customDomains :
        "error" \in DOMAIN customDomains[id] => customDomains[id].status = "error"

(***************************************************************************)
(* Properties of createForSite before its first insert.                    *)
(***************************************************************************)

\* slot p, in this step, takes a createForSite invocation or runs one of its
\* steps that come before the insert of the apex
BeforeApexInsert(p) ==
    \/ Invoked(p) /\ args'[p].fn = "createForSite"
    \/ /\ pc[p] \in {"attachApex", "fetchApex"}
       /\ args[p].fn = "createForSite"
       /\ pc'[p] # pc[p]

\* slot p, in this step, stores a document for the apex of its createForSite
ApexInserted(p) ==
    /\ InFlight(p)
    /\ args[p].fn = "createForSite"
    /\ \E id \in DOMAIN customDomains' \ DOMAIN customDomains :
           customDomains'[id].domain = ApexOf(p)

\* C27: normalization, attach(apex) and fetchConfig(apex) leave the registry
\* as it is, whether they fail or not, and a failure among them ends the
\* invocation with an error; the apex document is stored only after both the
\* attach and the fetchConfig of the apex have been made and have come back.
C27_NoRecordBeforeSuccess ==
    [][\A p \in Procs :
          /\ BeforeApexInsert(p) =>
                 /\ customDomains' = customDomains
                 /\ nextDomainId' = nextDomainId
                 /\ pc'[p] = "done" => outcome'[p].kind = "threw"
          /\ ApexInserted(p) =>
                 /\ pc[p] = "insertApex"
                 /\ OpsOf(p) = <<(<<"attach", ApexOf(p)>>), (<<"fetchConfig", ApexOf(p)>>)>>
                 /\ calls[p][1].sent /\ calls[p][2].sent
                 /\ outcome[p] = Running]_vars

\* a createForSite ended at the fetchConfig of its apex, and the registry is still empty
C27_Witness ==
    /\ customDomains = NoLocals
    /\ nextDomainId = 1
    /\ \E p \in Procs :
           /\ pc[p] = "done"
           /\ args[p].fn = "createForSite"
           /\ outcome[p].kind = "threw"
           /\ Len(calls[p]) = 2
           /\ calls[p][2].op = "fetchConfig"

(***************************************************************************)
(* Properties of workflows that race on one record.                        *)
(***************************************************************************)

\* the fields every customDomains document is inserted with
RequiredDomainKeys == {"siteId", "domain", "redirectFromWww", "status"}

\* slot q, in this step, runs the patch or the delete of a workflow whose document is gone
LateWrite(q) ==
    /\ pc[q] \in {"patchStatus", "patchError", "remove"}
    /\ pc'[q] # pc[q]
    /\ ~HasDomainRecord(args[q].id)

\* C28: with refreshStatus and removeFromProject, or two removeFromProject,
\* interleaved on one record, a document that has been deleted stays absent:
\* the later patch or delete of the other workflow changes nothing, and no
\* document is ever left with part of its fields.
C28_DeletedStaysDeleted ==
    /\ [][/\ \A id \in IssuedDomainIds :
                 id \notin DOMAIN customDomains => id \notin DOMAIN customDomains'
          /\ \A q \in Procs :
                 LateWrite(q) => customDomains' = customDomains /\ outcome'[q].kind = "threw"]_vars
    /\ [](\A id \in DOMAIN customDomains : RequiredDomainKeys \subseteq DOMAIN customDomains[id])

\* a removeFromProject deleted the document between the read and the patch of
\* a refreshStatus, whose patch then found nothing
C28_Witness ==
    \E p, q \in Procs :
        /\ p # q
        /\ pc[p] = "done" /\ pc[q] = "done"
        /\ args[p].fn = "removeFromProject"
        /\ args[q].fn = "refreshStatus"
        /\ args[p].id = args[q].id
        /\ outcome[p] = Returned(<<>>)
        /\ outcome[q] = Threw(ErrPatchMissing)
        /\ Len(calls[q]) = 1
        /\ ~HasDomainRecord(args[p].id)

(***************************************************************************)
(* Properties of normalizeDomain applied to its own result.                *)
(***************************************************************************)

\* C29: whenever normalizeDomain succeeds, normalizeDomain of what it
\* returned succeeds as well and returns the same value.
C29_Idempotent ==
    (IsNormalizeCall /\ call.result.ok) =>
        normalizeDomain(call.result.value) = [ok |-> TRUE, value |-> call.result.value]

====
